---------------------------- MODULE Spec2Model ----------------------------
(***************************************************************************)
(* Model of the numeric layer of the POD / Lagrange-multiplier animation   *)
(* scripts: projected energy and the energy meter, covariance construction *)
(* and sampling, the 3D eigen-decomposition reordering, path and matrix    *)
(* interpolation, the smoothstep easing curve, the gradient evaluators,    *)
(* vector normalization and the parametric path functions; and of the      *)
(* scaffolding around it: random point-cloud generation, concurrent calls  *)
(* of the helpers, the energy meter's progress bar, and the render script  *)
(* with its lookup of the manim command.                                   *)
(*                                                                         *)
(* Arithmetic conventions.  Real numbers are exact rationals carried as    *)
(* integers on a stated scale, or as pairs <<num, den>> with den > 0.      *)
(* Angles are integers in units of pi/12 (15 degrees).  np.cos and np.sin  *)
(* are tabulated to two decimals (scale TrigScale), so that, as with       *)
(* floating point, cos^2 + sin^2 is only approximately 1.  Apart from that *)
(* rounding of the trigonometric values, sums and products are exact.      *)
(***************************************************************************)
EXTENDS Integers, Sequences, FiniteSets

VARIABLES
    scene,          \* the code under way: "2d", "review", "cov", "3d",
                    \* "lerp_path", "lerp_matrix", "smooth_step", ..., "rng",
                    \* "threads", "resolve", "script", "meter"
    stage,          \* its position, e.g. "args", "built", "sampled", "locked"
    \* energy scan (pod_educational_2d.py, base_scenes.py)
    points,         \* the point set (self.data_points / samples), N x 2
    tracker,        \* theta_tracker / angle_tracker value, units of pi/12
    energy_value,   \* the DecimalNumber driven by update_energy, 1e-4 units
    meter_energy,   \* local `energy` of the last energy_ratio() call, 1e-4 units
    meter_value,    \* last return value of energy_ratio(), <<num, den>>
    fresh,          \* TRUE when the updaters ran since the last tracker change
    \* covariance construction (geometry.py)
    cov_theta,      \* theta argument of create_pod_covariance_matrix
    cov_lambda1,    \* lambda1 argument
    cov_lambda2,    \* lambda2 argument
    cov_matrix,     \* the covariance matrix the scene samples from, or <<>>
    \* 3D decomposition (pod_educational_3d.py)
    cov_3d_matrix,  \* np.cov(data_3d.T), scale EigScale^2
    eigvals,        \* eigenvalue array
    eigvecs,        \* eigenvector matrix (columns are eigenvectors), scale EigScale
    order,          \* np.argsort(eigvals)[::-1]
    mode_dirs,      \* <<v1_dir, v2_dir, v3_dir>>
    energy_ratios,  \* eigvals / total_energy, each <<num, den>>
    \* interpolation helpers (helpers.py)
    path_a,         \* lerp_path argument: start curve
    path_b,         \* lerp_path argument: target curve
    mat_a,          \* lerp_matrix argument
    mat_b,          \* lerp_matrix argument
    alpha,          \* blend factor, in units of 1/AlphaDen
    interpolated_path, \* the closure lerp_path returned, or <<>>
    edge0,          \* smooth_step argument
    edge1,          \* smooth_step argument
    t,              \* parameter of the last call
    out,            \* value the last call returned
    prev_t,         \* parameter of the call before
    prev_out,       \* value the call before returned
    \* gradient field evaluators and normalize_vector (helpers.py)
    func,           \* numerical_gradient_2d argument: the scalar callable
    arg_x,          \* x of the point the gradient is taken at
    arg_y,          \* y of that point
    arg_h,          \* step h of numerical_gradient_2d
    center,         \* gaussian_gradient argument (cx, cy)
    sigma_x,        \* gaussian_gradient argument
    sigma_y,        \* gaussian_gradient argument
    amplitude,      \* gaussian_gradient argument, in tenths
    grad,           \* the gradient vector the last call returned, or <<>>
    evals,          \* the points func was called at, in call order
    vec,            \* normalize_vector argument v
    epsilon,        \* normalize_vector argument
    normalized,     \* value normalize_vector returned, or <<>>
    \* parametric path functions (geometry.py, helpers.py)
    path_fn,        \* the path function a constructor returned, or <<>>
    morph_tracker,  \* value of the ValueTracker given to create_morphing_path
    calls,          \* number of calls of path_fn so far
    call_t,         \* parameter of the last call of path_fn
    call_point,     \* point the last call returned, or <<>>
    inner_calls,    \* calls of captured objects made by the last call
    eval_counts,    \* calls so far of the first and second captured curve
    first_seen,     \* per parameter: result of its first call, or <<>>
    \* random point-cloud generation (scene01_pod_review.py, pod_educational_*.py)
    np_random,      \* the process-wide numpy RandomState: [seed, pos]
    generator,      \* the Generator local to _create_point_cloud: [seed, pos]
    rng_pc,         \* position of each generating scene
    drawn,          \* per scene: the stretch of variates its last cloud was
                    \* drawn from, [seed, start, count]
    generations,    \* per scene: clouds generated so far
    \* concurrent calls of the helpers (helpers.py, geometry.py)
    shared_v,       \* the array both threads pass to normalize_vector
    shared_mat_a,   \* the matrix both threads pass to lerp_matrix as mat_a
    shared_mat_b,   \* the matrix both threads pass to lerp_matrix as mat_b
    shared_tracker, \* value of the ValueTracker morphing_path captured
    closure,        \* the function create_morphing_path returned
    th_fn,          \* per thread: the function it calls
    th_arg,         \* per thread: scalar argument (alpha of lerp_matrix, t of
                    \* morphing_path)
    th_pc,          \* per thread: position in the call
    th_local,       \* per thread: local variables of the call
    th_reads,       \* per thread: values tracker.get_value() returned to it
    th_result,      \* per thread: value the call returned, or <<>>
    \* _resolve_manim_command (render_pod_split.py)
    manual_exec,    \* MANIM_EXECUTABLE: "unset", "file" or "missing"
    envs_dirs,      \* the two envs directories: [is_dir, envs], envs in
                    \* iterdir order, each [manim_in_name, imports_manim]
    manim_on_path,  \* shutil.which("manim") finds an executable
    manim_spec,     \* importlib.util.find_spec("manim") finds the module
    resolve_pc,     \* position in _resolve_manim_command
    possible_envs,  \* environments still to probe: <<directory, index>>
    resolved,       \* what the function returned or raised: [source, env]
    \* the render script (render_pod_split.py __main__, render_animation)
    argv,           \* sys.argv[1:]
    script_pc,      \* position in the script
    part,           \* parsed part / render_animation argument
    quality,        \* parsed quality / render_animation argument
    preview,        \* parsed preview / render_animation argument
    success,        \* local `success` of render_animation
    invoked,        \* the subprocess.run calls so far: [cmd, returncode]
    returned,       \* what render_animation returned: "none", "True", "False"
    \* the progress bar of the energy meter (base_scenes.py)
    unclamped,      \* energy / total_energy before np.clip, <<num, den>>
    bar_width       \* width of the redrawn progress bar, <<num, den>>

ctlVars == <<scene, stage>>
scanVars == <<points, tracker, energy_value, meter_energy, meter_value, fresh>>
covVars == <<cov_theta, cov_lambda1, cov_lambda2, cov_matrix>>
eigVars == <<cov_3d_matrix, eigvals, eigvecs, order, mode_dirs, energy_ratios>>
helperVars == <<path_a, path_b, mat_a, mat_b, alpha, interpolated_path,
                edge0, edge1, t, out, prev_t, prev_out>>

gradVars == <<func, arg_x, arg_y, arg_h, center, sigma_x, sigma_y, amplitude,
              grad, evals, vec, epsilon, normalized>>

pathVars == <<path_fn, morph_tracker, calls, call_t, call_point, inner_calls,
              eval_counts, first_seen>>

rngVars == <<np_random, generator, rng_pc, drawn, generations>>

\* the variables of the scene scaffolding and the render script
threadVars == <<shared_v, shared_mat_a, shared_mat_b, shared_tracker, closure,
                th_fn, th_arg, th_pc, th_local, th_reads, th_result>>

resolveVars == <<manual_exec, envs_dirs, manim_on_path, manim_spec, resolve_pc,
                 possible_envs, resolved>>

scriptVars == <<argv, script_pc, part, quality, preview, success, invoked, returned>>

barVars == <<unclamped, bar_width>>

toolVars == <<rngVars, threadVars, resolveVars, scriptVars, barVars>>

vars == <<ctlVars, scanVars, covVars, eigVars, helperVars, gradVars, pathVars,
          toolVars>>

\* the variables outside the scan and covariance code
notPOD == <<eigVars, helperVars, gradVars, pathVars, toolVars>>
\* the variables outside the 3D decomposition
notEig == <<scanVars, covVars, helperVars, gradVars, pathVars, toolVars>>
\* the variables outside the interpolation helpers
notHelper == <<scanVars, covVars, eigVars, gradVars, pathVars, toolVars>>
\* the variables outside the gradient evaluators and normalize_vector
notGrad == <<scanVars, covVars, eigVars, helperVars, pathVars, toolVars>>
\* the variables outside the path functions
notPath == <<scanVars, covVars, eigVars, helperVars, gradVars, toolVars>>
\* the variables of the numeric layer
numericVars == <<scanVars, covVars, eigVars, helperVars, gradVars, pathVars>>

(***************************************************************************)
(* Bounds of the model.                                                    *)
(***************************************************************************)
MaxPoints == 2
AngleSpan == 14
MaxLambda == 4
MaxEig == 2
MaxT == 5
AlphaSpan == 1
EdgeSpan == 2
TSpan == 4

(***************************************************************************)
(* np.cos / np.sin, np.pi.                                                 *)
(***************************************************************************)
TrigScale == 100
HalfTurn == 12
FullTurn == 2 * HalfTurn

CosTable == <<100, 97, 87, 71, 50, 26, 0>>

Cos(k) ==
    LET m == k % FullTurn
    IN  IF m <= 6 THEN CosTable[m + 1]
        ELSE IF m <= 12 THEN -CosTable[12 - m + 1]
        ELSE IF m <= 18 THEN -CosTable[m - 12 + 1]
        ELSE CosTable[24 - m + 1]

Sin(k) == Cos(k - 6)

Angles == (0 - AngleSpan)..AngleSpan

(***************************************************************************)
(* numpy helpers: sum, matrix-vector product, elementwise square, clip.    *)
(***************************************************************************)
RECURSIVE NpSum(_)
NpSum(s) == IF s = <<>> THEN 0 ELSE Head(s) + NpSum(Tail(s))

\* samples @ direction for an N x 2 array and a 2-vector
MatVec(m, d) == [i \in 1..Len(m) |-> m[i][1] * d[1] + m[i][2] * d[2]]

Squares(v) == [i \in 1..Len(v) |-> v[i] * v[i]]

\* a direction whose angle is first clamped into [0, 2 pi]
DirectionClamped(angle) ==
    LET a == IF angle < 0 THEN 0 ELSE IF angle > FullTurn THEN FullTurn ELSE angle
    IN  <<Cos(a), Sin(a)>>

\* np.array([np.cos(angle), np.sin(angle)]), scale TrigScale
Direction(angle) == <<Cos(angle), Sin(angle)>>

\* np.clip(num/den, 0.0, 1.0) on a quotient with den > 0, kept over den
NpClip01(num, den) ==
    IF num < 0 THEN <<0, den>>
    ELSE IF num > den THEN <<den, den>>
    ELSE <<num, den>>

(***************************************************************************)
(* PODEducational2D.scene2_energy_search.update_energy                     *)
(***************************************************************************)
UpdateEnergySquareOfSum(data_points, angle) ==
    LET s == NpSum(MatVec(data_points, Direction(angle))) IN s * s

UpdateEnergy(data_points, angle) ==
    NpSum(Squares(MatVec(data_points, Direction(angle))))

(***************************************************************************)
(* BaseLagrangeScene.build_energy_meter                                    *)
(***************************************************************************)
EpsInv == 1000000

\* np.linalg.norm(samples, axis=1) ** 2: the squared row norms
RowNormsSquared(samples) ==
    [i \in 1..Len(samples) |-> samples[i][1] * samples[i][1] + samples[i][2] * samples[i][2]]

TotalEnergyNoEpsilon(samples) == EpsInv * NpSum(RowNormsSquared(samples))

\* total_energy = sum(norm^2) + 1e-6, in units of 1e-6
TotalEnergy(samples) == EpsInv * NpSum(RowNormsSquared(samples)) + 1

\* local `energy` of energy_ratio(), in units of 1e-4
MeterEnergy(samples, angle) ==
    NpSum(Squares(MatVec(samples, Direction(angle))))

\* energy in units of 1e-6 (TrigScale^2 = 1e4)
Micro(e) == e * (EpsInv \div (TrigScale * TrigScale))

EnergyRatioNoClip(samples, angle) ==
    <<Micro(MeterEnergy(samples, angle)), TotalEnergy(samples)>>

EnergyRatio(samples, angle) ==
    NpClip01(Micro(MeterEnergy(samples, angle)), TotalEnergy(samples))

(***************************************************************************)
(* Point sets the trackers scan.                                           *)
(***************************************************************************)
PointPool == {<<0, 0>>, <<1, 1>>, <<2, -1>>, <<-3, 1>>}

PointSets == UNION {[1..n -> PointPool] : n \in 0..MaxPoints}

(***************************************************************************)
(* Values of the variables of code that is not under way.                  *)
(***************************************************************************)
ScanIdle ==
    /\ points = <<>>
    /\ tracker = 0
    /\ energy_value = 0
    /\ meter_energy = 0
    /\ meter_value = <<0, 1>>
    /\ fresh = FALSE

CovIdle ==
    /\ cov_theta = 0
    /\ cov_lambda1 = 0
    /\ cov_lambda2 = 0
    /\ cov_matrix = <<>>

EigIdle ==
    /\ cov_3d_matrix = <<>>
    /\ eigvals = <<>>
    /\ eigvecs = <<>>
    /\ order = <<>>
    /\ mode_dirs = <<>>
    /\ energy_ratios = <<>>

HelperIdle ==
    /\ path_a = <<>>
    /\ path_b = <<>>
    /\ mat_a = <<>>
    /\ mat_b = <<>>
    /\ alpha = 0
    /\ interpolated_path = <<>>
    /\ edge0 = 0
    /\ edge1 = 0
    /\ t = 0
    /\ out = <<>>
    /\ prev_t = 0
    /\ prev_out = <<>>

GradIdle ==
    /\ func = <<>>
    /\ arg_x = 0
    /\ arg_y = 0
    /\ arg_h = 0
    /\ center = <<>>
    /\ sigma_x = 0
    /\ sigma_y = 0
    /\ amplitude = 0
    /\ grad = <<>>
    /\ evals = <<>>
    /\ vec = <<>>
    /\ epsilon = 0
    /\ normalized = <<>>

PathIdle ==
    /\ path_fn = <<>>
    /\ morph_tracker = 0
    /\ calls = 0
    /\ call_t = 0
    /\ call_point = <<>>
    /\ inner_calls = <<>>
    /\ eval_counts = <<0, 0>>
    /\ first_seen = <<>>

\* the scenes that generate a random point cloud
RngScenes == {"review", "2d", "3d"}

NoSample == [seed |-> 0, start |-> 0, count |-> 0]

RngIdle ==
    /\ np_random = [seed |-> 0, pos |-> 0]
    /\ generator = [seed |-> 0, pos |-> 0]
    /\ rng_pc = [sc \in RngScenes |-> "idle"]
    /\ drawn = [sc \in RngScenes |-> NoSample]
    /\ generations = [sc \in RngScenes |-> 0]

\* the threads calling helpers concurrently
Threads == {"t1", "t2"}

NoLocals == [norm2 |-> 0, left |-> <<>>, alpha |-> 0,
             point_start |-> <<>>, point_end |-> <<>>]

ThreadIdle ==
    /\ shared_v = <<>>
    /\ shared_mat_a = <<>>
    /\ shared_mat_b = <<>>
    /\ shared_tracker = 0
    /\ closure = <<>>
    /\ th_fn = [th \in Threads |-> "none"]
    /\ th_arg = [th \in Threads |-> 0]
    /\ th_pc = [th \in Threads |-> "idle"]
    /\ th_local = [th \in Threads |-> NoLocals]
    /\ th_reads = [th \in Threads |-> <<>>]
    /\ th_result = [th \in Threads |-> <<>>]

NotResolved == [source |-> "none", env |-> <<>>]

ResolveIdle ==
    /\ manual_exec = "unset"
    /\ envs_dirs = <<>>
    /\ manim_on_path = FALSE
    /\ manim_spec = FALSE
    /\ resolve_pc = "idle"
    /\ possible_envs = <<>>
    /\ resolved = NotResolved

ScriptIdle ==
    /\ argv = <<>>
    /\ script_pc = "idle"
    /\ part = "both"
    /\ quality = "medium"
    /\ preview = FALSE
    /\ success = TRUE
    /\ invoked = <<>>
    /\ returned = "none"

BarIdle ==
    /\ unclamped = <<0, 1>>
    /\ bar_width = <<2, 100>>

ToolIdle ==
    /\ RngIdle
    /\ ThreadIdle
    /\ ResolveIdle
    /\ ScriptIdle
    /\ BarIdle

(***************************************************************************)
(* Energy scan: a tracker driven by the animation, and the two updaters.   *)
(***************************************************************************)
InitEnergy ==
    /\ scene \in {"2d", "review"}
    /\ points \in PointSets
    /\ tracker = 0
    /\ energy_value = 0
    /\ meter_energy = 0
    /\ meter_value = <<0, 1>>
    /\ fresh = FALSE
    /\ stage = "sampled"
    /\ CovIdle
    /\ EigIdle
    /\ HelperIdle
    /\ GradIdle
    /\ PathIdle
    /\ ToolIdle

\* theta_tracker.animate.set_value / angle_tracker.set_value
SetTracker ==
    /\ stage = "sampled"
    /\ \E a \in Angles : tracker' = a
    /\ fresh' = FALSE
    /\ UNCHANGED <<ctlVars, points, energy_value, meter_energy, meter_value, covVars, notPOD>>

\* update_energy(mob): mob.set_value(energy)
update_energy ==
    /\ stage = "sampled"
    /\ scene = "2d"
    /\ energy_value' = UpdateEnergy(points, tracker)
    /\ fresh' = TRUE
    /\ UNCHANGED <<ctlVars, points, tracker, meter_energy, meter_value, covVars, notPOD>>

\* energy_ratio(), called by the progress bar and the percentage updater
energy_ratio ==
    /\ stage = "sampled"
    /\ scene = "review"
    /\ meter_energy' = MeterEnergy(points, tracker)
    /\ meter_value' = EnergyRatio(points, tracker)
    /\ fresh' = TRUE
    /\ UNCHANGED <<ctlVars, points, tracker, energy_value, covVars, notPOD>>

NextEnergy == SetTracker \/ update_energy \/ energy_ratio

SpecEnergy == InitEnergy /\ [][NextEnergy]_vars

(***************************************************************************)
(* Claims about the projected energy and the energy meter.                 *)
(***************************************************************************)
\* sum over the points of (P_i . [cos theta, sin theta])^2, in 1e-4 units
RECURSIVE SumSquaredProjections(_, _, _)
SumSquaredProjections(P, theta, n) ==
    IF n = 0 THEN 0
    ELSE LET proj == P[n][1] * Cos(theta) + P[n][2] * Sin(theta)
         IN  proj * proj + SumSquaredProjections(P, theta, n - 1)

\* C1: whenever an updater has run for the current tracker value, the energy
\* it computed (update_energy in the 2D scene, `energy` inside energy_ratio
\* in the meter) equals the sum over all points of (P_i . [cos, sin])^2, and
\* is 0 for the empty point set.
C1_EnergyIsSumOfSquaredProjections ==
    (fresh /\ stage = "sampled") =>
        /\ scene = "2d" =>
               energy_value = SumSquaredProjections(points, tracker, Len(points))
        /\ scene = "review" =>
               meter_energy = SumSquaredProjections(points, tracker, Len(points))
        /\ points = <<>> =>
               (scene = "2d" => energy_value = 0) /\ (scene = "review" => meter_energy = 0)

C1_Witness ==
    /\ fresh
    /\ scene = "2d"
    /\ Len(points) = 2
    /\ points[1] # points[2]
    /\ tracker % 6 # 0
    /\ energy_value > 0
    /\ energy_value = SumSquaredProjections(points, tracker, 2)

\* C2: in every reachable state, after any sequence of tracker updates, the
\* value returned by energy_ratio() lies in [0, 1].
C2_RatioInUnitInterval ==
    /\ meter_value[2] > 0
    /\ 0 <= meter_value[1]
    /\ meter_value[1] <= meter_value[2]

\* the meter was evaluated where the unclamped quotient overshoots 1
C2_Witness ==
    /\ scene = "review"
    /\ fresh
    /\ points # <<>>
    /\ Micro(meter_energy) > TotalEnergy(points)
    /\ meter_value = <<TotalEnergy(points), TotalEnergy(points)>>

\* C15: for every N x 2 point set, the empty one and the all-zero ones
\* included, energy_ratio() returns a finite value (the denominator
\* total_energy is positive), and it returns 0 when the point set has no
\* energy.
C15_EnergyRatioNeverFails ==
    (scene = "review" /\ fresh) =>
        /\ meter_value[2] > 0
        /\ (\A i \in 1..Len(points) : points[i] = <<0, 0>>) =>
               /\ meter_energy = 0
               /\ meter_value[1] = 0

\* the meter was evaluated on the empty point set at a nonzero angle
C15_Witness ==
    /\ scene = "review"
    /\ fresh
    /\ points = <<>>
    /\ tracker # 0
    /\ meter_value[1] = 0
    /\ meter_value[2] = 1

\* C24: the projected energy and the energy ratio depend on theta only through
\* [cos theta, sin theta], with no wrap of the angle: for every point set and
\* every tracker value, inside or outside [0, 2 pi), the value the updater
\* computed equals the value at theta + 2 pi, at theta - 2 pi and (the
\* direction being unsigned) at theta + pi.
C24_EnergyPeriodic ==
    fresh =>
        /\ scene = "2d" =>
            /\ energy_value = UpdateEnergy(points, tracker + FullTurn)
            /\ energy_value = UpdateEnergy(points, tracker - FullTurn)
            /\ energy_value = UpdateEnergy(points, tracker + HalfTurn)
        /\ scene = "review" =>
            /\ meter_energy = MeterEnergy(points, tracker + FullTurn)
            /\ meter_energy = MeterEnergy(points, tracker - FullTurn)
            /\ meter_energy = MeterEnergy(points, tracker + HalfTurn)
            /\ meter_value = EnergyRatio(points, tracker + FullTurn)
            /\ meter_value = EnergyRatio(points, tracker - FullTurn)
            /\ meter_value = EnergyRatio(points, tracker + HalfTurn)

\* an updater ran at an angle below 0 where the energy is neither zero nor
\* the energy at theta = 0
C24_Witness ==
    /\ fresh
    /\ tracker < 0
    /\ \/ scene = "2d" /\ energy_value > 0 /\ energy_value # UpdateEnergy(points, 0)
       \/ scene = "review" /\ meter_energy > 0 /\ meter_value # EnergyRatio(points, 0)

(***************************************************************************)
(* Small dense matrices: rows are sequences.                               *)
(***************************************************************************)
Transpose(m) == [j \in 1..Len(m[1]) |-> [i \in 1..Len(m) |-> m[i][j]]]

\* a @ b
MatMul(a, b) ==
    [i \in 1..Len(a) |->
        [j \in 1..Len(b[1]) |-> NpSum([k \in 1..Len(b) |-> a[i][k] * b[k][j]])]]

\* np.diag(v)
NpDiag(v) == [i \in 1..Len(v) |-> [j \in 1..Len(v) |-> IF i = j THEN v[i] ELSE 0]]

\* a @ v for a square matrix and a vector
Apply(a, v) == [i \in 1..Len(a) |-> NpSum([k \in 1..Len(v) |-> a[i][k] * v[k]])]

Dot(u, v) == NpSum([k \in 1..Len(u) |-> u[k] * v[k]])

(***************************************************************************)
(* geometry.create_pod_covariance_matrix: C = R Lambda R^T, scale          *)
(* TrigScale^2.                                                            *)
(***************************************************************************)
Rotation(theta) ==
    << <<Cos(theta), 0 - Sin(theta)>>,
       <<Sin(theta), Cos(theta)>> >>

CreatePodCovarianceMatrixSwapped(theta, lambda1, lambda2) ==
    MatMul(MatMul(Rotation(theta), NpDiag(<<lambda2, lambda1>>)), Transpose(Rotation(theta)))

CreatePodCovarianceMatrixNoTranspose(theta, lambda1, lambda2) ==
    MatMul(MatMul(Rotation(theta), NpDiag(<<lambda1, lambda2>>)), Rotation(theta))

CreatePodCovarianceMatrix(theta, lambda1, lambda2) ==
    MatMul(MatMul(Rotation(theta), NpDiag(<<lambda1, lambda2>>)), Transpose(Rotation(theta)))

(***************************************************************************)
(* PODEducational2D.scene1_introduction: the literal covariance            *)
(* [[2.5, 2.0], [2.0, 2.5]] in quarter units, and the locked angle pi/4.   *)
(***************************************************************************)
CovMatrix2D == << <<10, 8>>, <<8, 10>> >>

MaxAngle2D == HalfTurn \div 4

(***************************************************************************)
(* np.random.multivariate_normal(mean 0, cov, N): x_i = A z_i for a factor *)
(* A with A A^T = cov and standard-normal draws z_i.  The draws are        *)
(* idealised by small sets whose second moment sum z z^T is a multiple of  *)
(* the identity; the factor is any matrix of the candidate family that     *)
(* reproduces cov exactly (none when the factor would be irrational); as   *)
(* in the library's SVD, the larger scale comes first.                     *)
(***************************************************************************)
ZDraws ==
    { << <<1, 1>>, <<1, -1>> >>,
      << <<1, 0>>, <<0, 1>>, <<-1, 0>>, <<0, -1>> >> }

\* factors R(k) diag(s1, s2) with s1 >= s2, by their parameters <<k, <<s1, s2>>>>
FactorParams ==
    (0..(FullTurn - 1)) \X {q \in (0..MaxLambda) \X (0..MaxLambda) : q[1] >= q[2]}

RotatedScales(k, s) == MatMul(Rotation(k), NpDiag(s))

\* factors with small integer entries (half units)
IntegerFactors ==
    {<< <<a, b>>, <<c, d>> >> : a \in -3..3, b \in -3..3, c \in -3..3, d \in -3..3}

IsFactorOf(f, cov) == MatMul(f, Transpose(f)) = cov

CovFactors(sc, cov) ==
    IF sc = "cov"
    THEN {RotatedScales(p[1], p[2]) :
              p \in {q \in FactorParams : IsFactorOf(RotatedScales(q[1], q[2]), cov)}}
    ELSE {f \in IntegerFactors : IsFactorOf(f, cov)}

MultivariateNormal(factor, z) == [i \in 1..Len(z) |-> Apply(factor, z[i])]

(***************************************************************************)
(* Covariance, sampling and energy scan.                                   *)
(***************************************************************************)
InitPOD ==
    /\ scene \in {"2d", "cov"}
    /\ points = <<>>
    /\ tracker = 0
    /\ energy_value = 0
    /\ meter_energy = 0
    /\ meter_value = <<0, 1>>
    /\ fresh = FALSE
    /\ stage = "args"
    /\ cov_matrix = <<>>
    /\ IF scene = "cov"
       THEN /\ cov_theta \in Angles
            /\ cov_lambda1 \in 0..MaxLambda
            /\ cov_lambda2 \in 0..MaxLambda
       ELSE /\ cov_theta = 0
            /\ cov_lambda1 = 0
            /\ cov_lambda2 = 0
    /\ EigIdle
    /\ HelperIdle
    /\ GradIdle
    /\ PathIdle
    /\ ToolIdle

create_pod_covariance_matrix ==
    /\ scene = "cov"
    /\ stage = "args"
    /\ cov_matrix' = CreatePodCovarianceMatrix(cov_theta, cov_lambda1, cov_lambda2)
    /\ stage' = "built"
    /\ UNCHANGED <<scene, scanVars, cov_theta, cov_lambda1, cov_lambda2, notPOD>>

\* scene1_introduction: cov_matrix = [[2.5, 2.0], [2.0, 2.5]]
scene1_cov_matrix ==
    /\ scene = "2d"
    /\ stage = "args"
    /\ cov_matrix' = CovMatrix2D
    /\ stage' = "built"
    /\ UNCHANGED <<scene, scanVars, cov_theta, cov_lambda1, cov_lambda2, notPOD>>

\* np.random.multivariate_normal([0, 0], cov_matrix, N)
multivariate_normal ==
    /\ stage = "built"
    /\ \E f \in CovFactors(scene, cov_matrix), z \in ZDraws :
           points' = MultivariateNormal(f, z)
    /\ stage' = "sampled"
    /\ UNCHANGED <<scene, tracker, energy_value, meter_energy, meter_value, fresh, covVars, notPOD>>

\* one frame of the rotation theta_tracker.animate.set_value(2 * PI): the
\* tracker takes a value of [0, 2 pi] and the updater update_energy runs
scan_frame ==
    /\ stage = "sampled"
    /\ \E a \in 0..FullTurn :
           /\ tracker' = a
           /\ energy_value' = UpdateEnergy(points, a)
    /\ fresh' = TRUE
    /\ UNCHANGED <<ctlVars, points, meter_energy, meter_value, covVars, notPOD>>

\* scene2_energy_search: theta_tracker.animate.set_value(max_angle), Mode 1
\* locked, with update_energy run on the final frame
lock_mode1 ==
    /\ scene = "2d"
    /\ stage = "sampled"
    /\ tracker' = MaxAngle2D
    /\ energy_value' = UpdateEnergy(points, MaxAngle2D)
    /\ fresh' = TRUE
    /\ stage' = "locked"
    /\ UNCHANGED <<scene, points, meter_energy, meter_value, covVars, notPOD>>

NextPOD ==
    \/ create_pod_covariance_matrix
    \/ scene1_cov_matrix
    \/ multivariate_normal
    \/ scan_frame
    \/ lock_mode1

SpecPOD == InitPOD /\ [][NextPOD]_vars

(***************************************************************************)
(* Claims about the covariance construction and the energy maximum.        *)
(***************************************************************************)
SameDirectionModPi(a, b) == (a - b) % HalfTurn = 0

TestVectors == {<<x, y>> : x \in -3..3, y \in -3..3} \cup {Direction(k) : k \in 0..(FullTurn - 1)}

QuadraticForm(m, v) == Dot(v, Apply(m, v))

Abs(x) == IF x < 0 THEN 0 - x ELSE x

\* v is an eigenvector of m (m v parallel to v) whose Rayleigh quotient is
\* within 1% of lambda on the scale TrigScale^2 of m
IsEigenpair(m, v, lambda) ==
    LET mv == Apply(m, v)
        target == lambda * TrigScale * TrigScale * Dot(v, v)
    IN  /\ mv[1] * v[2] = mv[2] * v[1]
        /\ Abs(Dot(v, mv) - target) <= target \div 100

\* C6: for every theta and lambda1, lambda2 >= 0 the matrix returned by
\* create_pod_covariance_matrix is symmetric and positive-semi-definite, with
\* [cos theta, sin theta] an eigenvector of eigenvalue lambda1 and
\* [-sin theta, cos theta] an eigenvector of eigenvalue lambda2 (eigenvalues
\* up to the rounding of cos and sin).
C6_CovarianceSymmetricPSD ==
    (scene = "cov" /\ stage = "built") =>
        /\ cov_matrix[1][2] = cov_matrix[2][1]
        /\ \A v \in TestVectors : QuadraticForm(cov_matrix, v) >= 0
        /\ IsEigenpair(cov_matrix, <<Cos(cov_theta), Sin(cov_theta)>>, cov_lambda1)
        /\ IsEigenpair(cov_matrix, <<0 - Sin(cov_theta), Cos(cov_theta)>>, cov_lambda2)

C6_Witness ==
    /\ scene = "cov"
    /\ stage = "built"
    /\ cov_theta % 6 # 0
    /\ cov_lambda1 > 0
    /\ cov_lambda2 > 0
    /\ cov_lambda1 # cov_lambda2
    /\ cov_matrix[1][2] # 0
    /\ cov_matrix = CreatePodCovarianceMatrix(cov_theta, cov_lambda1, cov_lambda2)

(***************************************************************************)
(* PODEducational3D.scene5_3d_extension: eigen-decomposition of the        *)
(* covariance of the 3D point cloud and its reordering.                    *)
(*                                                                         *)
(* Eigenvectors are integer vectors of length EigScale; a matrix of scale  *)
(* EigScale^2 with eigenpair (w, v) satisfies A v = EigScale^2 w v.        *)
(* np.linalg.eigh is modelled by its contract: it returns any pair         *)
(* (w, V) with w ascending, the columns of V orthonormal and A V = V       *)
(* diag(w), among the orthonormal frames of the model.                     *)
(***************************************************************************)
EigScale == 3

\* orthogonal bases of R^3 with rational unit vectors, as column lists
Bases ==
    { << <<3, 0, 0>>, <<0, 3, 0>>, <<0, 0, 3>> >>,
      << <<1, 2, 2>>, <<2, 1, -2>>, <<2, -2, 1>> >> }

Permutations3 == {p \in [1..3 -> 1..3] : \A i, j \in 1..3 : p[i] = p[j] => i = j}

Scaled(c, v) == [i \in 1..Len(v) |-> c * v[i]]

\* the matrix sum_k w[k] v_k v_k^T with v_k the columns of the basis b
SpectralMatrix(b, w) ==
    [i \in 1..3 |-> [j \in 1..3 |-> NpSum([k \in 1..3 |-> w[k] * b[k][i] * b[k][j]])]]

\* np.cov(data_3d.T): symmetric positive-semi-definite matrices
CovInputs == {SpectralMatrix(b, w) : b \in Bases, w \in [1..3 -> 0..MaxEig]}

\* matrices whose columns are an orthonormal frame
Frames ==
    {Transpose([k \in 1..3 |-> Scaled(sg[k], b[p[k]])]) :
         b \in Bases, p \in Permutations3, sg \in [1..3 -> {-1, 1}]}

Column(m, k) == [i \in 1..Len(m) |-> m[i][k]]

\* np.linalg.eigh(a): the set of results allowed by its contract
Eigh(a) ==
    {r \in [w : [1..3 -> 0..MaxEig], v : Frames] :
        /\ r.w[1] <= r.w[2]
        /\ r.w[2] <= r.w[3]
        /\ \A k \in 1..3 :
               Apply(a, Column(r.v, k)) = Scaled(EigScale * EigScale * r.w[k], Column(r.v, k))}

\* np.argsort(x): the index orders that sort x ascending
Argsort(x) ==
    {p \in Permutations3 : x[p[1]] <= x[p[2]] /\ x[p[2]] <= x[p[3]]}

\* s[::-1]
Reversed(s) == [i \in 1..Len(s) |-> s[Len(s) + 1 - i]]

ReorderIndexNoReverse(x) == Argsort(x)

\* order = np.argsort(eigvals)[::-1]
ReorderIndex(x) == {Reversed(p) : p \in Argsort(x)}

TakeNothing(x, idx) == x

\* eigvals[order]
Take(x, idx) == [i \in 1..Len(idx) |-> x[idx[i]]]

TakeColumnsNothing(m, idx) == m

\* eigvecs[:, order]
TakeColumns(m, idx) == [i \in 1..Len(m) |-> [j \in 1..Len(idx) |-> m[i][idx[j]]]]

ModeDirsFirstTwice(m) == <<Column(m, 1), Column(m, 1), Column(m, 3)>>

\* v1_dir, v2_dir, v3_dir = eigvecs[:, 0], eigvecs[:, 1], eigvecs[:, 2]
ModeDirs(m) == <<Column(m, 1), Column(m, 2), Column(m, 3)>>

\* energy_ratios = eigvals / np.sum(eigvals), each quotient kept as
\* <<numerator, denominator>>
EnergyRatios(w) == [i \in 1..Len(w) |-> <<w[i], NpSum(w)>>]

InitEig ==
    /\ scene = "3d"
    /\ stage = "cov"
    /\ cov_3d_matrix \in CovInputs
    /\ eigvals = <<>>
    /\ eigvecs = <<>>
    /\ order = <<>>
    /\ mode_dirs = <<>>
    /\ energy_ratios = <<>>
    /\ ScanIdle
    /\ CovIdle
    /\ HelperIdle
    /\ GradIdle
    /\ PathIdle
    /\ ToolIdle

\* eigvals, eigvecs = np.linalg.eigh(cov_3d_matrix)
eigh ==
    /\ scene = "3d"
    /\ stage = "cov"
    /\ \E r \in Eigh(cov_3d_matrix) :
           /\ eigvals' = r.w
           /\ eigvecs' = r.v
    /\ stage' = "eigh"
    /\ UNCHANGED <<scene, cov_3d_matrix, order, mode_dirs, energy_ratios, notEig>>

\* order = np.argsort(eigvals)[::-1]; eigvals = eigvals[order];
\* eigvecs = eigvecs[:, order]
reorder ==
    /\ scene = "3d"
    /\ stage = "eigh"
    /\ \E o \in ReorderIndex(eigvals) :
           /\ order' = o
           /\ eigvals' = Take(eigvals, o)
           /\ eigvecs' = TakeColumns(eigvecs, o)
    /\ stage' = "ordered"
    /\ UNCHANGED <<scene, cov_3d_matrix, mode_dirs, energy_ratios, notEig>>

\* v1_dir = eigvecs[:, 0]; v2_dir = eigvecs[:, 1]; v3_dir = eigvecs[:, 2];
\* total_energy = np.sum(eigvals); energy_ratios = eigvals / total_energy
extract_modes ==
    /\ scene = "3d"
    /\ stage = "ordered"
    /\ mode_dirs' = ModeDirs(eigvecs)
    /\ energy_ratios' = EnergyRatios(eigvals)
    /\ stage' = "modes"
    /\ UNCHANGED <<scene, cov_3d_matrix, eigvals, eigvecs, order, notEig>>

NextEig == eigh \/ reorder \/ extract_modes

SpecEig == InitEig /\ [][NextEig]_vars

(***************************************************************************)
(* Claims about the 3D decomposition.                                      *)
(***************************************************************************)
\* C4: after the reordering step the eigenvalues are in non-increasing
\* order, lambda_1 >= lambda_2 >= lambda_3, for every input matrix.
C4_EigenvaluesDescending ==
    stage \in {"ordered", "modes"} =>
        /\ eigvals[1] >= eigvals[2]
        /\ eigvals[2] >= eigvals[3]

\* reordered, with three distinct eigenvalues that eigh returned ascending
C4_Witness ==
    /\ stage = "ordered"
    /\ eigvals[1] > eigvals[2]
    /\ eigvals[2] > eigvals[3]
    /\ order = <<3, 2, 1>>

Orthonormal(vs) ==
    \A i, j \in 1..Len(vs) :
        Dot(vs[i], vs[j]) = IF i = j THEN EigScale * EigScale ELSE 0

\* C5: the reordering is a column permutation, and the eigenvectors after
\* it (the columns of eigvecs, and v1_dir, v2_dir, v3_dir taken from them)
\* have pairwise dot product 0 and norm 1, for every symmetric input.
C5_EigenvectorsOrthonormal ==
    /\ stage \in {"ordered", "modes"} =>
           /\ order \in Permutations3
           /\ Orthonormal(<<Column(eigvecs, 1), Column(eigvecs, 2), Column(eigvecs, 3)>>)
    /\ stage = "modes" => Orthonormal(mode_dirs)

\* modes extracted from a genuinely permuted, non-axis-aligned frame
C5_Witness ==
    /\ stage = "modes"
    /\ eigvals[1] > eigvals[3]
    /\ mode_dirs[1][1] # 0
    /\ mode_dirs[1][2] # 0
    /\ mode_dirs[2] = Column(eigvecs, 2)
    /\ Apply(cov_3d_matrix, mode_dirs[1]) = Scaled(EigScale * EigScale * eigvals[1], mode_dirs[1])

\* the matrix has an eigenvalue with two orthogonal eigenvectors
HasRepeatedEigenvalue(a) ==
    \E fr \in Frames, w \in 0..MaxEig :
        /\ Apply(a, Column(fr, 1)) = Scaled(EigScale * EigScale * w, Column(fr, 1))
        /\ Apply(a, Column(fr, 2)) = Scaled(EigScale * EigScale * w, Column(fr, 2))

\* C18 (as stated): after the reordering step the eigenvalue array is
\* strictly descending, eigvals[0] > eigvals[1] > eigvals[2], for every
\* input covariance matrix.
C18_StrictlyDescending ==
    stage \in {"ordered", "modes"} =>
        /\ eigvals[1] > eigvals[2]
        /\ eigvals[2] > eigvals[3]

\* C18 (amended): after the reordering step the eigenvalue array is
\* non-increasing for every input covariance matrix, and it is strictly
\* descending exactly when the matrix has no repeated eigenvalue.
C18_DescendingStrictIffDistinct ==
    stage \in {"ordered", "modes"} =>
        /\ eigvals[1] >= eigvals[2]
        /\ eigvals[2] >= eigvals[3]
        /\ (eigvals[1] > eigvals[2] /\ eigvals[2] > eigvals[3])
               <=> ~HasRepeatedEigenvalue(cov_3d_matrix)

\* reordered eigenvalues of a non-diagonal matrix with a tie at the top
C18_Witness ==
    /\ stage = "ordered"
    /\ eigvals[1] = eigvals[2]
    /\ eigvals[2] > eigvals[3]
    /\ cov_3d_matrix[1][2] # 0
    /\ HasRepeatedEigenvalue(cov_3d_matrix)

\* column k of m with eigenvalue w is an eigenpair of the matrix a
IsEigenpairOf(a, w, m, k) ==
    Apply(a, Column(m, k)) = Scaled(EigScale * EigScale * w, Column(m, k))

\* the arrays w0, v0 with w = w0[idx] and m = v0[:, idx], idx a permutation
Unpermuted(w, m, idx) ==
    LET at(k) == CHOOSE i \in 1..3 : idx[i] = k
    IN  [w |-> [k \in 1..3 |-> w[at(k)]],
         v |-> [i \in 1..3 |-> [k \in 1..3 |-> m[i][at(k)]]]]

\* C25: the reordering applies one and the same permutation to the eigenvalue
\* array and to the eigenvector columns: the reordered arrays are what eigh
\* returned, both taken at `order`, so that column i is an eigenvector of the
\* covariance matrix for eigvals[i] and no eigenpair is lost or duplicated;
\* v1_dir, v2_dir, v3_dir are the eigenvectors of the largest, middle and
\* smallest eigenvalue, and energy_ratios[i] is eigvals[i] / sum(eigvals).
C25_SamePermutationForValuesAndVectors ==
    /\ stage \in {"ordered", "modes"} =>
           /\ order \in Permutations3
           /\ Unpermuted(eigvals, eigvecs, order) \in Eigh(cov_3d_matrix)
           /\ \A i \in 1..3 : IsEigenpairOf(cov_3d_matrix, eigvals[i], eigvecs, i)
    /\ stage = "modes" =>
           /\ eigvals[1] >= eigvals[2]
           /\ eigvals[2] >= eigvals[3]
           /\ \A i \in 1..3 :
                  /\ mode_dirs[i] = Column(eigvecs, i)
                  /\ Apply(cov_3d_matrix, mode_dirs[i])
                         = Scaled(EigScale * EigScale * eigvals[i], mode_dirs[i])
                  /\ energy_ratios[i] = <<eigvals[i], eigvals[1] + eigvals[2] + eigvals[3]>>

\* modes of a non-diagonal matrix with three distinct eigenvalues, which the
\* reordering reversed
C25_Witness ==
    /\ stage = "modes"
    /\ order = <<3, 2, 1>>
    /\ eigvals[1] > eigvals[2]
    /\ eigvals[2] > eigvals[3]
    /\ cov_3d_matrix[1][2] # 0
    /\ energy_ratios[1] = <<eigvals[1], eigvals[1] + eigvals[2] + eigvals[3]>>

(***************************************************************************)
(* geometry.wavy_ellipse_path, geometry.perfect_circle_path: parametric    *)
(* curves t -> [x, y, 0].  A curve is a record of its constructor's        *)
(* arguments; lengths are in tenths, so points have scale 10 * TrigScale.  *)
(***************************************************************************)
WavyEllipsePath(scale, wave_amplitude) ==
    [kind |-> "wavy_ellipse", scale |-> scale, wave_amplitude |-> wave_amplitude]

PerfectCirclePath(radius) == [kind |-> "perfect_circle", radius |-> radius]

\* path(t) of either constructor
EvalPath(path, tt) ==
    IF path.kind = "wavy_ellipse"
    THEN << path.scale * 30 * Cos(tt) + path.wave_amplitude * Sin(3 * tt),
            path.scale * 18 * Sin(tt) + path.wave_amplitude * Cos(2 * tt),
            0 >>
    ELSE << path.radius * Cos(tt), path.radius * Sin(tt), 0 >>

CurvePool == {WavyEllipsePath(1, 3), PerfectCirclePath(25), PerfectCirclePath(10)}

(***************************************************************************)
(* helpers.lerp_path, helpers.lerp_matrix.  alpha counts units of          *)
(* 1/AlphaDen; results carry the extra scale AlphaDen.                     *)
(***************************************************************************)
AlphaDen == 4

Alphas == (0 - AlphaSpan)..(AlphaDen + AlphaSpan)

\* the closure lerp_path returns: it captures path_a, path_b and alpha
LerpPath(pa, pb, al) == [path_a |-> pa, path_b |-> pb, alpha |-> al]

InterpolatedPathSwapped(f, tt) ==
    LET point_a == EvalPath(f.path_a, tt)
        point_b == EvalPath(f.path_b, tt)
    IN  [i \in 1..3 |-> f.alpha * point_a[i] + (AlphaDen - f.alpha) * point_b[i]]

\* interpolated_path(t) = (1 - alpha) * point_a + alpha * point_b
InterpolatedPath(f, tt) ==
    LET point_a == EvalPath(f.path_a, tt)
        point_b == EvalPath(f.path_b, tt)
    IN  [i \in 1..3 |-> (AlphaDen - f.alpha) * point_a[i] + f.alpha * point_b[i]]

LerpMatrixFirstRowOnly(ma, mb, al) ==
    [i \in 1..Len(ma) |-> [j \in 1..Len(ma[i]) |->
        IF i = 1 THEN (AlphaDen - al) * ma[i][j] + al * mb[i][j] ELSE AlphaDen * ma[i][j]]]

LerpMatrixDifference(ma, mb, al) ==
    [i \in 1..Len(ma) |-> [j \in 1..Len(ma[i]) |->
        (AlphaDen - al) * ma[i][j] - al * mb[i][j]]]

\* (1 - alpha) * mat_a + alpha * mat_b
LerpMatrix(ma, mb, al) ==
    [i \in 1..Len(ma) |-> [j \in 1..Len(ma[i]) |->
        (AlphaDen - al) * ma[i][j] + al * mb[i][j]]]

MatEntries == {-1, 0, 2}

Matrices2 ==
    {<< <<a, b>>, <<c, d>> >> : a \in MatEntries, b \in MatEntries, c \in MatEntries, d \in MatEntries}

\* matrices Q of quadratic forms x^T Q x with elliptic level sets
LevelSetMatrices ==
    { << <<1, 0>>, <<0, 5>> >>,
      << <<5, 2>>, <<2, 1>> >>,
      << <<1, -2>>, <<-2, 5>> >>,
      << <<3, 1>>, <<1, 2>> >> }

LerpMatrixInputs == Matrices2 \cup LevelSetMatrices

InitLerp ==
    /\ scene \in {"lerp_path", "lerp_matrix"}
    /\ stage = "args"
    /\ alpha \in Alphas
    /\ IF scene = "lerp_path"
       THEN /\ path_a \in CurvePool
            /\ path_b \in CurvePool
            /\ mat_a = <<>>
            /\ mat_b = <<>>
       ELSE /\ path_a = <<>>
            /\ path_b = <<>>
            /\ mat_a \in LerpMatrixInputs
            /\ mat_b \in LerpMatrixInputs
    /\ interpolated_path = <<>>
    /\ edge0 = 0
    /\ edge1 = 0
    /\ t = 0
    /\ out = <<>>
    /\ prev_t = 0
    /\ prev_out = <<>>
    /\ ScanIdle
    /\ CovIdle
    /\ EigIdle
    /\ GradIdle
    /\ PathIdle
    /\ ToolIdle

\* lerp_path(path_a, path_b, alpha): returns the closure
lerp_path ==
    /\ scene = "lerp_path"
    /\ stage = "args"
    /\ interpolated_path' = LerpPath(path_a, path_b, alpha)
    /\ stage' = "built"
    /\ UNCHANGED <<scene, path_a, path_b, mat_a, mat_b, alpha, edge0, edge1,
                   t, out, prev_t, prev_out, notHelper>>

\* a call interpolated_path(t) of the closure
call_interpolated_path ==
    /\ scene = "lerp_path"
    /\ stage \in {"built", "called"}
    /\ \E tt \in 0..MaxT :
           /\ t' = tt
           /\ out' = InterpolatedPath(interpolated_path, tt)
    /\ prev_t' = t
    /\ prev_out' = out
    /\ stage' = "called"
    /\ UNCHANGED <<scene, path_a, path_b, mat_a, mat_b, alpha, interpolated_path,
                   edge0, edge1, notHelper>>

\* lerp_matrix(mat_a, mat_b, alpha)
lerp_matrix ==
    /\ scene = "lerp_matrix"
    /\ stage = "args"
    /\ out' = LerpMatrix(mat_a, mat_b, alpha)
    /\ stage' = "returned"
    /\ UNCHANGED <<scene, path_a, path_b, mat_a, mat_b, alpha, interpolated_path,
                   edge0, edge1, t, prev_t, prev_out, notHelper>>

NextLerp == lerp_path \/ call_interpolated_path \/ lerp_matrix

SpecLerp == InitLerp /\ [][NextLerp]_vars

(***************************************************************************)
(* Claims about lerp_path and lerp_matrix.                                 *)
(***************************************************************************)
ScaledMatrix(c, m) == [i \in 1..Len(m) |-> Scaled(c, m[i])]

\* C7: lerp_path(A, B, 0)(t) equals A(t) and lerp_path(A, B, 1)(t) equals
\* B(t) exactly, for all curves and all t; lerp_matrix(Qa, Qb, 0) equals Qa
\* and lerp_matrix(Qa, Qb, 1) equals Qb exactly, for all matrices.
C7_LerpEndpointsExact ==
    /\ (scene = "lerp_path" /\ stage = "called") =>
           /\ alpha = 0 => out = Scaled(AlphaDen, EvalPath(path_a, t))
           /\ alpha = AlphaDen => out = Scaled(AlphaDen, EvalPath(path_b, t))
    /\ (scene = "lerp_matrix" /\ stage = "returned") =>
           /\ alpha = 0 => out = ScaledMatrix(AlphaDen, mat_a)
           /\ alpha = AlphaDen => out = ScaledMatrix(AlphaDen, mat_b)

\* the blend at alpha = 1 of two curves that differ at t was evaluated
C7_Witness ==
    /\ scene = "lerp_path"
    /\ stage = "called"
    /\ alpha = AlphaDen
    /\ EvalPath(path_a, t) # EvalPath(path_b, t)
    /\ out = Scaled(AlphaDen, EvalPath(path_b, t))
    /\ out[1] # 0
    /\ out[2] # 0

IsSymmetric(m) == \A i, j \in 1..Len(m) : m[i][j] = m[j][i]

\* C10: for symmetric Qa and Qb and every blend factor alpha, inside or
\* outside [0, 1], lerp_matrix(Qa, Qb, alpha) is symmetric.
C10_LerpMatrixSymmetric ==
    (scene = "lerp_matrix" /\ stage = "returned" /\ IsSymmetric(mat_a) /\ IsSymmetric(mat_b)) =>
        IsSymmetric(out)

\* two different non-diagonal symmetric matrices blended outside [0, 1]
C10_Witness ==
    /\ scene = "lerp_matrix"
    /\ stage = "returned"
    /\ IsSymmetric(mat_a)
    /\ IsSymmetric(mat_b)
    /\ mat_a[1][2] # mat_b[1][2]
    /\ mat_a[1][2] # 0
    /\ alpha > AlphaDen
    /\ out[1][2] # 0
    /\ IsSymmetric(out)

\* geometry.quadratic_form_level_set(matrix, level)(x, y) = vec @ matrix @ vec - level
QuadraticFormLevelSet(matrix, level, x, y) ==
    Dot(<<x, y>>, Apply(matrix, <<x, y>>)) - level

\* a symmetric 2 x 2 matrix is positive-definite iff its leading minors are
\* positive
IsPositiveDefinite(m) ==
    /\ IsSymmetric(m)
    /\ m[1][1] > 0
    /\ m[1][1] * m[2][2] - m[1][2] * m[2][1] > 0

\* det < 0: the quadratic form takes both signs
IsIndefinite(m) == m[1][1] * m[2][2] - m[1][2] * m[2][1] < 0

NonzeroVectors == {v \in (-3..3) \X (-3..3) : v # <<0, 0>>}

\* C11 (as stated): there are two positive-definite matrices Qa, Qb and an
\* alpha strictly between 0 and 1 for which lerp_matrix(Qa, Qb, alpha) is not
\* positive-definite (evaluated over all arguments of the model once
\* lerp_matrix has returned).
C11_IndefiniteBlendExists ==
    (scene = "lerp_matrix" /\ stage = "returned") =>
        \E a \in {m \in LerpMatrixInputs : IsPositiveDefinite(m)},
           b \in {m \in LerpMatrixInputs : IsPositiveDefinite(m)},
           al \in 1..(AlphaDen - 1) :
            ~IsPositiveDefinite(LerpMatrix(a, b, al))

\* C11 (amended): for positive-definite Qa, Qb and every alpha in [0, 1],
\* lerp_matrix(Qa, Qb, alpha) is positive-definite and its quadratic form is
\* positive on every nonzero vector; an indefinite blend of positive-definite
\* matrices occurs only for alpha outside [0, 1].
C11_BlendStaysPositiveDefinite ==
    (scene = "lerp_matrix" /\ stage = "returned"
         /\ IsPositiveDefinite(mat_a) /\ IsPositiveDefinite(mat_b)) =>
        /\ (0 <= alpha /\ alpha <= AlphaDen) =>
               /\ IsPositiveDefinite(out)
               /\ \A v \in NonzeroVectors : QuadraticFormLevelSet(out, 0, v[1], v[2]) > 0
        /\ IsIndefinite(out) => (alpha < 0 \/ alpha > AlphaDen)

\* two different positive-definite matrices, neither diagonal, blended
\* strictly inside (0, 1)
C11_Witness ==
    /\ scene = "lerp_matrix"
    /\ stage = "returned"
    /\ IsPositiveDefinite(mat_a)
    /\ IsPositiveDefinite(mat_b)
    /\ mat_a[1][2] * mat_b[1][2] < 0
    /\ 0 < alpha
    /\ alpha < AlphaDen
    /\ IsPositiveDefinite(out)

(***************************************************************************)
(* helpers.smooth_step.  Arguments are integers (any common unit); the     *)
(* result is the exact rational <<num, den>> with den > 0.                 *)
(***************************************************************************)
\* num / den with the sign carried by the numerator (den # 0)
Quotient(num, den) == IF den < 0 THEN <<0 - num, 0 - den>> ELSE <<num, den>>

SmoothStepNoClip(tt, e0, e1) ==
    LET q == Quotient(tt - e0, e1 - e0)
    IN  <<q[1] * q[1] * (3 * q[2] - 2 * q[1]), q[2] * q[2] * q[2]>>

SmoothStepLinearFactor(tt, e0, e1) ==
    LET q == Quotient(tt - e0, e1 - e0)
        c == NpClip01(q[1], q[2])
    IN  <<c[1] * (3 * c[2] - 2 * c[1]), c[2] * c[2]>>

\* t = np.clip((t - edge0) / (edge1 - edge0), 0.0, 1.0)
\* return t * t * (3.0 - 2.0 * t)
SmoothStep(tt, e0, e1) ==
    LET q == Quotient(tt - e0, e1 - e0)
        c == NpClip01(q[1], q[2])
    IN  <<c[1] * c[1] * (3 * c[2] - 2 * c[1]), c[2] * c[2] * c[2]>>

InitSmooth ==
    /\ scene = "smooth_step"
    /\ stage = "args"
    /\ edge0 \in (0 - EdgeSpan)..EdgeSpan
    /\ edge1 \in (0 - EdgeSpan)..EdgeSpan
    /\ t = 0
    /\ out = <<>>
    /\ prev_t = 0
    /\ prev_out = <<>>
    /\ path_a = <<>>
    /\ path_b = <<>>
    /\ mat_a = <<>>
    /\ mat_b = <<>>
    /\ alpha = 0
    /\ interpolated_path = <<>>
    /\ ScanIdle
    /\ CovIdle
    /\ EigIdle
    /\ GradIdle
    /\ PathIdle
    /\ ToolIdle

\* a call smooth_step(t, edge0, edge1) that returns
smooth_step ==
    /\ scene = "smooth_step"
    /\ stage \in {"args", "returned"}
    /\ edge1 # edge0
    /\ \E tt \in (0 - TSpan)..TSpan :
           /\ t' = tt
           /\ out' = SmoothStep(tt, edge0, edge1)
    /\ prev_t' = t
    /\ prev_out' = out
    /\ stage' = "returned"
    /\ UNCHANGED <<scene, path_a, path_b, mat_a, mat_b, alpha, interpolated_path,
                   edge0, edge1, notHelper>>

\* a call with edge0 = edge1: the division by edge1 - edge0 fails
smooth_step_zero_division ==
    /\ scene = "smooth_step"
    /\ stage = "args"
    /\ edge1 = edge0
    /\ \E tt \in (0 - TSpan)..TSpan : t' = tt
    /\ stage' = "raised"
    /\ UNCHANGED <<scene, path_a, path_b, mat_a, mat_b, alpha, interpolated_path,
                   edge0, edge1, out, prev_t, prev_out, notHelper>>

NextSmooth == smooth_step \/ smooth_step_zero_division

SpecSmooth == InitSmooth /\ [][NextSmooth]_vars

(***************************************************************************)
(* Claims about smooth_step.                                               *)
(***************************************************************************)
RatEq(p, q) == p[1] * q[2] = q[1] * p[2]

RatLeq(p, q) == p[1] * q[2] <= q[1] * p[2]

\* 3 s^2 - 2 s^3 for s = n / d
Hermite(n, d) == <<3 * n * n * d - 2 * n * n * n, d * d * d>>

\* C8: for edge0 < edge1, smooth_step is 0 at edge0 and for every t below
\* it, 1 at edge1 and for every t above it, and 3 s^2 - 2 s^3 with
\* s = (t - edge0) / (edge1 - edge0) for t in between.
C8_SmoothStepValues ==
    (scene = "smooth_step" /\ stage = "returned" /\ edge0 < edge1) =>
        /\ out[2] > 0
        /\ t = edge0 => out[1] = 0
        /\ t = edge1 => out[1] = out[2]
        /\ t < edge0 => out[1] = 0
        /\ t > edge1 => out[1] = out[2]
        /\ (edge0 <= t /\ t <= edge1) => RatEq(out, Hermite(t - edge0, edge1 - edge0))

\* a call strictly inside the edges, after a call outside them
C8_Witness ==
    /\ scene = "smooth_step"
    /\ stage = "returned"
    /\ edge0 < t
    /\ t < edge1
    /\ 0 < out[1]
    /\ out[1] < out[2]
    /\ 2 * out[1] # out[2]
    /\ prev_out # <<>>
    /\ prev_t > edge1
    /\ prev_out[1] = prev_out[2]

\* C9: for edge0 < edge1, smooth_step is non-decreasing on [edge0, edge1]:
\* of two calls with edge0 <= t1 <= t2 <= edge1 the first returns no more
\* than the second.
C9_SmoothStepMonotone ==
    (scene = "smooth_step" /\ stage = "returned" /\ edge0 < edge1 /\ prev_out # <<>>) =>
        /\ (edge0 <= prev_t /\ prev_t <= t /\ t <= edge1) => RatLeq(prev_out, out)
        /\ (edge0 <= t /\ t <= prev_t /\ prev_t <= edge1) => RatLeq(out, prev_out)

\* two calls strictly inside the edges with strictly increasing results
C9_Witness ==
    /\ scene = "smooth_step"
    /\ stage = "returned"
    /\ prev_out # <<>>
    /\ edge0 < prev_t
    /\ prev_t < t
    /\ t < edge1
    /\ RatLeq(prev_out, out)
    /\ ~RatEq(prev_out, out)

(***************************************************************************)
(* Gradient field evaluators: helpers.gaussian_gradient,                   *)
(* helpers.composite_gradient, helpers.numerical_gradient_2d.  Points      *)
(* (x, y), centers and sigmas are integers.                                *)
(*                                                                         *)
(* np.exp is tabulated to three decimals for arguments -n/72 (72 is a      *)
(* common multiple of 2 sigma^2 for sigma 2 and 3); np.sin(0.8 x),         *)
(* np.cos(0.8 x), np.sin(0.6 y), np.cos(0.6 y) are tabulated to two        *)
(* decimals at integer x, y.                                               *)
(***************************************************************************)
GridSpan == 2
HSpan == 2

Grid == (0 - GridSpan)..GridSpan

ExpScale == 1000
ExpDen == 72

ExpTable ==
   << 1000, 986, 973, 959, 946, 933, 920, 907, 895, 882, 870, 858, 846, 835, 823,
      812, 801, 790, 779, 768, 757, 747, 737, 727, 717, 707, 697, 687, 678, 668,
      659, 650, 641, 632, 624, 615, 607, 598, 590, 582, 574, 566, 558, 550, 543,
      535, 528, 521, 513, 506, 499, 492, 486, 479, 472, 466, 459, 453, 447, 441,
      435, 429, 423, 417, 411, 405, 400, 394, 389, 384, 378, 373, 368, 363, 358,
      353, 348, 343, 338, 334, 329, 325, 320, 316, 311, 307, 303, 299, 295, 291,
      287, 283, 279, 275, 271, 267, 264, 260, 256, 253, 249, 246, 243, 239, 236,
      233, 229, 226, 223, 220, 217, 214, 211, 208, 205, 202, 200, 197, 194, 192,
      189, 186, 184, 181, 179, 176, 174, 171, 169, 167, 164, 162, 160, 158, 155,
      153, 151, 149, 147, 145, 143, 141, 139, 137, 135, 133, 132, 130, 128, 126,
      125, 123, 121, 119, 118, 116, 115, 113, 111, 110, 108, 107, 105, 104, 103,
      101, 100, 98, 97, 96, 94, 93, 92, 90, 89, 88, 87, 86, 84, 83,
      82, 81, 80, 79, 78, 77, 76, 74, 73, 72, 71, 70, 69, 69, 68,
      67, 66, 65, 64, 63, 62, 61, 60, 60, 59, 58, 57, 56, 56, 55,
      54, 53, 53, 52, 51, 50, 50, 49, 48, 48, 47, 46, 46, 45, 45,
      44, 43, 43, 42, 42, 41, 40, 40, 39, 39, 38, 38, 37, 37, 36, 36 >>

\* np.exp(-n / 72), scale ExpScale
NpExpNeg(n) == ExpTable[n + 1]

\* dx**2 / (2 * sigma_x**2) + dy**2 / (2 * sigma_y**2), in units of 1/72
GaussianExponent(dx, dy, sx, sy) ==
    dx * dx * (ExpDen \div (2 * sx * sx)) + dy * dy * (ExpDen \div (2 * sy * sy))

\* gradients of gaussian_gradient are carried over the denominator GradDen,
\* a common multiple of sigma_x**2 and sigma_y**2: scale 10 * ExpScale * GradDen
GradDen == 36

GaussianGradientPlusSign(px, py, c, sx, sy, amp) ==
    LET dx == px - c[1]
        dy == py - c[2]
        f_val == amp * NpExpNeg(GaussianExponent(dx, dy, sx, sy))
    IN  << f_val * dx * (GradDen \div (sx * sx)),
           f_val * dy * (GradDen \div (sy * sy)),
           0 >>

GaussianGradientSigmaNotSquared(px, py, c, sx, sy, amp) ==
    LET dx == px - c[1]
        dy == py - c[2]
        f_val == amp * NpExpNeg(GaussianExponent(dx, dy, sx, sy))
    IN  << (0 - f_val * dx) * (GradDen \div sx),
           (0 - f_val * dy) * (GradDen \div sy),
           0 >>

\* gaussian_gradient(x, y, center, sigma_x, sigma_y, amplitude)
GaussianGradient(px, py, c, sx, sy, amp) ==
    LET dx == px - c[1]
        dy == py - c[2]
        f_val == amp * NpExpNeg(GaussianExponent(dx, dy, sx, sy))
    IN  << (0 - f_val * dx) * (GradDen \div (sx * sx)),
           (0 - f_val * dy) * (GradDen \div (sy * sy)),
           0 >>

SinTable08 == <<0, 72, 100, 68>>
CosTable08 == <<100, 70, -3, -74>>
SinTable06 == <<0, 56, 93, 97>>
CosTable06 == <<100, 83, 36, -23>>

\* an odd table function at integer k
OddTable(tbl, k) == IF k < 0 THEN 0 - tbl[1 - k] ELSE tbl[k + 1]

\* an even table function at integer k
EvenTable(tbl, k) == IF k < 0 THEN tbl[1 - k] ELSE tbl[k + 1]

\* composite_gradient(x, y), scale 100 * 10 * ExpScale * GradDen:
\* grad1 + np.array([grad_sin_x, grad_sin_y, 0.0])
CompositeGradient(px, py) ==
    LET grad1 == GaussianGradient(px, py, <<0, 0>>, 3, 2, 8)
        grad_sin_x == 4 * 8 * EvenTable(CosTable08, px) * EvenTable(CosTable06, py)
        grad_sin_y == 0 - 4 * 6 * OddTable(SinTable08, px) * OddTable(SinTable06, py)
    IN  << 100 * grad1[1] + GradDen * grad_sin_x,
           100 * grad1[2] + GradDen * grad_sin_y,
           100 * grad1[3] + 0 >>

\* scalar callables f(x, y) handed to numerical_gradient_2d; dtype is the
\* type of the value f returns (a Python float or a numpy float64)
FuncPool ==
    [kind : {"plane", "saddle", "ridge", "bowl"}, dtype : {"float", "float64"}]

\* func(px, py)
EvalFunc(f, px, py) ==
    CASE f.kind = "plane" -> 2 * px - 3 * py + 1
      [] f.kind = "saddle" -> px * px - py * py
      [] f.kind = "ridge" -> px * py
      [] f.kind = "bowl" -> px * px + py * py

\* num / den of float64 values: a zero denominator gives a non-finite
\* value, kept as the pair with denominator 0
TrueDivideGuarded(num, den) == IF den = 0 THEN <<0, 1>> ELSE Quotient(num, den)

TrueDivide(num, den) == IF den = 0 THEN <<num, 0>> ELSE Quotient(num, den)

NumericalGradient2DForward(f, px, py, h) ==
    << TrueDivide(EvalFunc(f, px + h, py) - EvalFunc(f, px, py), 2 * h),
       TrueDivide(EvalFunc(f, px, py + h) - EvalFunc(f, px, py), 2 * h),
       <<0, 1>> >>

\* numerical_gradient_2d(func, x, y, h): [grad_x, grad_y, 0.0]
NumericalGradient2D(f, px, py, h) ==
    << TrueDivide(EvalFunc(f, px + h, py) - EvalFunc(f, px - h, py), 2 * h),
       TrueDivide(EvalFunc(f, px, py + h) - EvalFunc(f, px, py - h), 2 * h),
       <<0, 1>> >>

\* the points func is called at, in call order
EvalPoints(px, py, h) ==
    << <<px + h, py>>, <<px - h, py>>, <<px, py + h>>, <<px, py - h>> >>

(***************************************************************************)
(* helpers.normalize_vector.  The norm is kept by its square; v / norm is  *)
(* the record [num |-> v, den2 |-> norm^2], standing for v / sqrt(den2);   *)
(* divided tells whether the division took place.                          *)
(***************************************************************************)
NormSq(u) == Dot(u, u)

\* norm < epsilon, for norm >= 0
NormBelow(u, eps) == eps > 0 /\ NormSq(u) < eps * eps

NormalizeVectorNoGuard(u, eps) == [num |-> u, den2 |-> NormSq(u), divided |-> TRUE]

\* normalize_vector(v, epsilon)
NormalizeVector(u, eps) ==
    IF NormBelow(u, eps)
    THEN [num |-> u, den2 |-> 1, divided |-> FALSE]
    ELSE [num |-> u, den2 |-> NormSq(u), divided |-> TRUE]

\* vectors in units of 1e-9
VecPool ==
    { <<0, 0, 0>>, <<3, 4, 0>>, <<6, 8, 0>>, <<0, -5, 0>>, <<-30, 40, 0>>,
      <<2, 3, 6>>, <<1, 1, 0>>, <<7, -9, 1>> }

\* epsilon in units of 1e-9: 0, the default 1e-8, and a larger one
Epsilons == {0, 10, 13}

SigmaPairs == {<<3, 2>>, <<2, 3>>}

Centers == {<<0, 0>>, <<1, -1>>}

Amplitudes == {-8, 0, 8}

InitGrad ==
    /\ scene \in {"numerical_gradient_2d", "gaussian_gradient", "composite_gradient",
                  "normalize_vector"}
    /\ stage = "args"
    /\ IF scene = "normalize_vector"
       THEN /\ arg_x = 0
            /\ arg_y = 0
            /\ vec \in VecPool
            /\ epsilon \in Epsilons
       ELSE /\ arg_x \in Grid
            /\ arg_y \in Grid
            /\ vec = <<>>
            /\ epsilon = 0
    /\ IF scene = "numerical_gradient_2d"
       THEN /\ func \in FuncPool
            /\ arg_h \in (0 - HSpan)..HSpan
       ELSE /\ func = <<>>
            /\ arg_h = 0
    /\ IF scene = "gaussian_gradient"
       THEN /\ center \in Centers
            /\ \E sg \in SigmaPairs : sigma_x = sg[1] /\ sigma_y = sg[2]
            /\ amplitude \in Amplitudes
       ELSE /\ center = <<>>
            /\ sigma_x = 0
            /\ sigma_y = 0
            /\ amplitude = 0
    /\ grad = <<>>
    /\ evals = <<>>
    /\ normalized = <<>>
    /\ ScanIdle
    /\ CovIdle
    /\ EigIdle
    /\ HelperIdle
    /\ PathIdle
    /\ ToolIdle

gaussian_gradient ==
    /\ scene = "gaussian_gradient"
    /\ stage = "args"
    /\ grad' = GaussianGradient(arg_x, arg_y, center, sigma_x, sigma_y, amplitude)
    /\ stage' = "returned"
    /\ UNCHANGED <<scene, func, arg_x, arg_y, arg_h, center, sigma_x, sigma_y, amplitude,
                   evals, vec, epsilon, normalized, notGrad>>

composite_gradient ==
    /\ scene = "composite_gradient"
    /\ stage = "args"
    /\ grad' = CompositeGradient(arg_x, arg_y)
    /\ stage' = "returned"
    /\ UNCHANGED <<scene, func, arg_x, arg_y, arg_h, center, sigma_x, sigma_y, amplitude,
                   evals, vec, epsilon, normalized, notGrad>>

\* a call with h # 0
numerical_gradient_2d ==
    /\ scene = "numerical_gradient_2d"
    /\ stage = "args"
    /\ arg_h # 0
    /\ grad' = NumericalGradient2D(func, arg_x, arg_y, arg_h)
    /\ evals' = EvalPoints(arg_x, arg_y, arg_h)
    /\ stage' = "returned"
    /\ UNCHANGED <<scene, func, arg_x, arg_y, arg_h, center, sigma_x, sigma_y, amplitude,
                   vec, epsilon, normalized, notGrad>>

\* a call with h = 0: (func(x + h, y) - func(x - h, y)) / (2 * h) divides by
\* zero.  On Python floats the division raises ZeroDivisionError before
\* grad_y is computed; on numpy float64 values it yields a non-finite value
\* and the call returns.
numerical_gradient_2d_zero_division ==
    /\ scene = "numerical_gradient_2d"
    /\ stage = "args"
    /\ arg_h = 0
    /\ IF func.dtype = "float"
       THEN /\ grad' = <<>>
            /\ evals' = SubSeq(EvalPoints(arg_x, arg_y, arg_h), 1, 2)
            /\ stage' = "raised"
       ELSE /\ grad' = NumericalGradient2D(func, arg_x, arg_y, arg_h)
            /\ evals' = EvalPoints(arg_x, arg_y, arg_h)
            /\ stage' = "returned"
    /\ UNCHANGED <<scene, func, arg_x, arg_y, arg_h, center, sigma_x, sigma_y, amplitude,
                   vec, epsilon, normalized, notGrad>>

normalize_vector ==
    /\ scene = "normalize_vector"
    /\ stage = "args"
    /\ normalized' = NormalizeVector(vec, epsilon)
    /\ stage' = "returned"
    /\ UNCHANGED <<scene, func, arg_x, arg_y, arg_h, center, sigma_x, sigma_y, amplitude,
                   grad, evals, vec, epsilon, notGrad>>

NextGrad ==
    \/ gaussian_gradient
    \/ composite_gradient
    \/ numerical_gradient_2d
    \/ numerical_gradient_2d_zero_division
    \/ normalize_vector

SpecGrad == InitGrad /\ [][NextGrad]_vars

(***************************************************************************)
(* Claims about the gradient evaluators and normalize_vector.              *)
(***************************************************************************)
FourPoints(px, py, h) == {<<px + h, py>>, <<px - h, py>>, <<px, py + h>>, <<px, py - h>>}

\* C12: for every callable f, point (x, y) and step h # 0,
\* numerical_gradient_2d returns [(f(x+h,y) - f(x-h,y)) / (2h),
\* (f(x,y+h) - f(x,y-h)) / (2h), 0]; it calls f four times, only at those
\* four points, and the third component is 0 in every returned vector.
C12_CentralDifference ==
    (scene = "numerical_gradient_2d" /\ stage = "returned") =>
        /\ grad[3][1] = 0
        /\ grad[3][2] # 0
        /\ arg_h # 0 =>
               /\ grad[1][2] # 0
               /\ grad[1][1] * (2 * arg_h) =
                      (EvalFunc(func, arg_x + arg_h, arg_y) - EvalFunc(func, arg_x - arg_h, arg_y))
                          * grad[1][2]
               /\ grad[2][2] # 0
               /\ grad[2][1] * (2 * arg_h) =
                      (EvalFunc(func, arg_x, arg_y + arg_h) - EvalFunc(func, arg_x, arg_y - arg_h))
                          * grad[2][2]
               /\ Len(evals) = 4
               /\ {evals[i] : i \in 1..4} = FourPoints(arg_x, arg_y, arg_h)

\* a saddle differentiated away from the axes with a step other than 1
C12_Witness ==
    /\ scene = "numerical_gradient_2d"
    /\ stage = "returned"
    /\ func.kind = "saddle"
    /\ arg_h = 2
    /\ arg_x # 0
    /\ arg_y # 0
    /\ grad[1][1] # 0
    /\ grad[2][1] # 0
    /\ Len(evals) = 4

\* the Gaussian f = amplitude * exp(-(x-cx)^2/(2 sx^2) - (y-cy)^2/(2 sy^2)),
\* scale 10 * ExpScale
GaussianField(px, py, c, sx, sy, amp) ==
    amp * NpExpNeg(GaussianExponent(px - c[1], py - c[2], sx, sy))

\* d/dx and d/dy of 0.4 sin(0.8 x) cos(0.6 y), scale 10^6
RippleDerivative(px, py) ==
    << 32 * EvenTable(CosTable08, px) * EvenTable(CosTable06, py),
       0 - 24 * OddTable(SinTable08, px) * OddTable(SinTable06, py) >>

\* C13: gaussian_gradient returns [-f (x-cx) / sigma_x^2,
\* -f (y-cy) / sigma_y^2, 0] with f the Gaussian; composite_gradient returns
\* that vector for center (0,0), sigma_x 3, sigma_y 2, amplitude 0.8, plus
\* the derivative of the ripple 0.4 sin(0.8x) cos(0.6y).
C13_ClosedFormGradient ==
    /\ (scene = "gaussian_gradient" /\ stage = "returned") =>
           LET f == GaussianField(arg_x, arg_y, center, sigma_x, sigma_y, amplitude)
           IN  /\ grad[1] * sigma_x * sigma_x = (0 - f) * (arg_x - center[1]) * GradDen
               /\ grad[2] * sigma_y * sigma_y = (0 - f) * (arg_y - center[2]) * GradDen
               /\ grad[3] = 0
    /\ (scene = "composite_gradient" /\ stage = "returned") =>
           LET f == GaussianField(arg_x, arg_y, <<0, 0>>, 3, 2, 8)
               r == RippleDerivative(arg_x, arg_y)
           IN  /\ grad[1] * 9 = 100 * (0 - f) * arg_x * GradDen + 9 * GradDen * r[1]
               /\ grad[2] * 4 = 100 * (0 - f) * arg_y * GradDen + 4 * GradDen * r[2]
               /\ grad[3] = 0

\* the composite gradient where the Gaussian part and both ripple
\* derivatives are nonzero
C13_Witness ==
    /\ scene = "composite_gradient"
    /\ stage = "returned"
    /\ arg_x # 0
    /\ arg_y # 0
    /\ RippleDerivative(arg_x, arg_y)[1] # 0
    /\ RippleDerivative(arg_x, arg_y)[2] # 0
    /\ grad[1] # GradDen * RippleDerivative(arg_x, arg_y)[1]
    /\ grad[2] # GradDen * RippleDerivative(arg_x, arg_y)[2]

\* C14: with amplitude > 0 each horizontal component of gaussian_gradient
\* has the sign opposite to the offset from the center and is 0 at the
\* center, and f does not decrease one step toward the center; with h > 0
\* each component of numerical_gradient_2d is positive exactly when f is
\* larger at the +h point than at the -h point of its axis.
C14_GradientPointsUphill ==
    /\ (scene = "gaussian_gradient" /\ stage = "returned" /\ amplitude > 0) =>
           LET dx == arg_x - center[1]
               dy == arg_y - center[2]
               here == GaussianField(arg_x, arg_y, center, sigma_x, sigma_y, amplitude)
           IN  /\ dx > 0 => grad[1] < 0
               /\ dx < 0 => grad[1] > 0
               /\ dx = 0 => grad[1] = 0
               /\ dy > 0 => grad[2] < 0
               /\ dy < 0 => grad[2] > 0
               /\ dy = 0 => grad[2] = 0
               /\ dx > 0 =>
                      GaussianField(arg_x - 1, arg_y, center, sigma_x, sigma_y, amplitude) >= here
               /\ dx < 0 =>
                      GaussianField(arg_x + 1, arg_y, center, sigma_x, sigma_y, amplitude) >= here
    /\ (scene = "numerical_gradient_2d" /\ stage = "returned" /\ arg_h > 0) =>
           /\ grad[1][1] > 0 <=>
                  EvalFunc(func, arg_x + arg_h, arg_y) > EvalFunc(func, arg_x - arg_h, arg_y)
           /\ grad[2][1] > 0 <=>
                  EvalFunc(func, arg_x, arg_y + arg_h) > EvalFunc(func, arg_x, arg_y - arg_h)

\* a point right of and below an off-origin center
C14_Witness ==
    /\ scene = "gaussian_gradient"
    /\ stage = "returned"
    /\ amplitude > 0
    /\ center # <<0, 0>>
    /\ arg_x - center[1] > 0
    /\ arg_y - center[2] < 0
    /\ grad[1] < 0
    /\ grad[2] > 0

\* z_gaussian of abstract_landscape_surface.surface_func:
\* 0.8 * np.exp(-(u**2 / 9 + v**2 / 4)), scale 10 * ExpScale
SurfaceGaussian(u, v) == 8 * NpExpNeg(u * u * (ExpDen \div 9) + v * v * (ExpDen \div 4))

\* z_wave of surface_func: 0.4 * np.sin(0.8 * u) * np.cos(0.6 * v), scale 10^5
SurfaceWave(u, v) == 4 * OddTable(SinTable08, u) * EvenTable(CosTable06, v)

\* surface_func(u, v) = [x, y, z]; z on the scale 10^5
SurfaceFunc(u, v) == <<u, v, 10 * SurfaceGaussian(u, v) + SurfaceWave(u, v)>>

\* C30: composite_gradient(x, y) is the gradient of the height z(x, y) that
\* abstract_landscape_surface draws: its Gaussian term is the surface's
\* Gaussian peak (same amplitude, same exponent coefficients), so that the
\* returned vector is [-(2x/9) g + ripple_x, -(2y/4) g + ripple_y, 0] with
\* g = 0.8 exp(-(x^2/9 + y^2/4)), and the ripple is the surface's ripple.
C30_CompositeGradientOfDrawnSurface ==
    (scene = "composite_gradient" /\ stage = "returned") =>
        LET g == SurfaceGaussian(arg_x, arg_y)
            r == RippleDerivative(arg_x, arg_y)
        IN  /\ GaussianField(arg_x, arg_y, <<0, 0>>, 3, 2, 8) = g
            /\ SurfaceFunc(arg_x, arg_y)[3] = 10 * g + SurfaceWave(arg_x, arg_y)
            /\ grad[1] * 9 = 100 * (0 - 2 * g) * arg_x * GradDen + 9 * GradDen * r[1]
            /\ grad[2] * 4 = 100 * (0 - 2 * g) * arg_y * GradDen + 4 * GradDen * r[2]
            /\ grad[3] = 0

\* C16: normalize_vector(v, epsilon) returns v unchanged, without dividing,
\* whenever norm(v) < epsilon (the zero vector included); otherwise it
\* returns v divided by its norm, which for a nonzero v has unit norm and
\* the direction of v.
C16_NormalizeVector ==
    (scene = "normalize_vector" /\ stage = "returned") =>
        /\ (epsilon > 0 /\ Dot(vec, vec) < epsilon * epsilon) =>
               /\ ~normalized.divided
               /\ normalized.num = vec
               /\ normalized.den2 = 1
        /\ ~(epsilon > 0 /\ Dot(vec, vec) < epsilon * epsilon) =>
               /\ normalized.divided
               /\ normalized.num = vec
               /\ normalized.den2 = Dot(vec, vec)
               /\ Dot(vec, vec) > 0 => Dot(normalized.num, normalized.num) = normalized.den2

\* a nonzero vector shorter than epsilon came back unchanged
C16_Witness ==
    /\ scene = "normalize_vector"
    /\ stage = "returned"
    /\ vec # <<0, 0, 0>>
    /\ epsilon > 0
    /\ Dot(vec, vec) < epsilon * epsilon
    /\ ~normalized.divided
    /\ normalized.num = vec

\* C17: a call of numerical_gradient_2d with h = 0 divides by zero: it
\* raises or returns non-finite components; every call with h # 0 returns
\* finite components.
C17_ZeroStepDividesByZero ==
    (scene = "numerical_gradient_2d" /\ stage # "args") =>
        /\ arg_h = 0 =>
               \/ stage = "raised"
               \/ (stage = "returned" /\ grad[1][2] = 0 /\ grad[2][2] = 0)
        /\ arg_h # 0 =>
               /\ stage = "returned"
               /\ grad[1][2] > 0
               /\ grad[2][2] > 0

\* the call with h = 0 on Python floats raised after two evaluations of f
C17_Witness ==
    /\ scene = "numerical_gradient_2d"
    /\ stage = "raised"
    /\ arg_h = 0
    /\ func.dtype = "float"
    /\ Len(evals) = 2
    /\ grad = <<>>

(***************************************************************************)
(* Parametric path functions: the closures returned by                     *)
(* geometry.wavy_ellipse_path, geometry.perfect_circle_path,               *)
(* helpers.lerp_path, geometry.create_morphing_path and                    *)
(* geometry.project_path_to_surface, and their calls.  A closure is the    *)
(* record of what it captured; the ValueTracker a morphing path captures   *)
(* is the object whose value is morph_tracker.                             *)
(***************************************************************************)
MaxCalls == 2

PathScenes ==
    {"wavy_ellipse_path", "perfect_circle_path", "lerp_path", "create_morphing_path",
     "project_path_to_surface"}

\* values the ValueTracker takes, in units of 1/AlphaDen
TrackerValues == {0, 1, AlphaDen}

\* surface height functions (x, y) -> z
SurfacePool == {f \in FuncPool : f.dtype = "float64"}

\* the closure create_morphing_path returns: it captures tracker, path_start
\* and path_end
CreateMorphingPath(ps, pe) == [kind |-> "morphing", path_start |-> ps, path_end |-> pe]

\* the closure project_path_to_surface returns
ProjectPathToSurface(p2, sf) == [kind |-> "projected", path_2d |-> p2, surface_func |-> sf]

\* morphing_path(t), with alpha = tracker.get_value()
MorphingPath(f, tt, tracker_value) ==
    LET point_start == EvalPath(f.path_start, tt)
        point_end == EvalPath(f.path_end, tt)
    IN  [i \in 1..3 |-> (AlphaDen - tracker_value) * point_start[i] + tracker_value * point_end[i]]

\* path_3d(t)
Path3D(f, tt) ==
    LET point_2d == EvalPath(f.path_2d, tt)
    IN  <<point_2d[1], point_2d[2], EvalFunc(f.surface_func, point_2d[1], point_2d[2])>>

CallPathTrackerLeak(sc, f, tt, tracker_value) ==
    CASE sc = "lerp_path" -> InterpolatedPath([f EXCEPT !.alpha = tracker_value], tt)
      [] sc = "create_morphing_path" -> MorphingPath(f, tt, tracker_value)
      [] sc = "project_path_to_surface" -> Path3D(f, tt)
      [] OTHER -> EvalPath(f, tt)

\* a call f(t) of the path function that the constructor named sc returned
CallPath(sc, f, tt, tracker_value) ==
    CASE sc = "lerp_path" -> InterpolatedPath(f, tt)
      [] sc = "create_morphing_path" -> MorphingPath(f, tt, tracker_value)
      [] sc = "project_path_to_surface" -> Path3D(f, tt)
      [] OTHER -> EvalPath(f, tt)

InnerCallsFirstTwice(sc, tt, tracker_value) ==
    CASE sc = "lerp_path" -> << <<"path_a", tt>>, <<"path_a", tt>> >>
      [] sc = "create_morphing_path" ->
             << <<"tracker.get_value", tracker_value>>, <<"path_start", tt>>, <<"path_end", tt>> >>
      [] sc = "project_path_to_surface" -> << <<"path_2d", tt>> >>
      [] OTHER -> <<>>

\* the calls of captured objects a call f(t) makes, in order, each with its
\* argument (for tracker.get_value: with the value it returned)
InnerCalls(sc, tt, tracker_value) ==
    CASE sc = "lerp_path" -> << <<"path_a", tt>>, <<"path_b", tt>> >>
      [] sc = "create_morphing_path" ->
             << <<"tracker.get_value", tracker_value>>, <<"path_start", tt>>, <<"path_end", tt>> >>
      [] sc = "project_path_to_surface" -> << <<"path_2d", tt>> >>
      [] OTHER -> <<>>

FirstCurveNames == {"path_a", "path_start", "path_2d"}

SecondCurveNames == {"path_b", "path_end"}

\* number of entries of the call log that call one of the named curves
CallsOf(log, names) == Cardinality({i \in 1..Len(log) : log[i][1] \in names})

\* the path function under test
PathUnderTest == IF scene = "lerp_path" THEN interpolated_path ELSE path_fn

NotSeen == [seen |-> FALSE, point |-> <<>>, tracker |-> 0]

InitPath ==
    /\ scene \in PathScenes
    /\ stage = "args"
    /\ alpha \in Alphas
    /\ IF scene = "lerp_path"
       THEN /\ path_a \in CurvePool
            /\ path_b \in CurvePool
       ELSE /\ path_a = <<>>
            /\ path_b = <<>>
    /\ scene # "lerp_path" => alpha = 0
    /\ mat_a = <<>>
    /\ mat_b = <<>>
    /\ interpolated_path = <<>>
    /\ edge0 = 0
    /\ edge1 = 0
    /\ t = 0
    /\ out = <<>>
    /\ prev_t = 0
    /\ prev_out = <<>>
    /\ path_fn = <<>>
    /\ morph_tracker = 0
    /\ calls = 0
    /\ call_t = 0
    /\ call_point = <<>>
    /\ inner_calls = <<>>
    /\ eval_counts = <<0, 0>>
    /\ first_seen = [tt \in 0..MaxT |-> NotSeen]
    /\ ScanIdle
    /\ CovIdle
    /\ EigIdle
    /\ GradIdle
    /\ ToolIdle

wavy_ellipse_path ==
    /\ scene = "wavy_ellipse_path"
    /\ stage = "args"
    /\ \E sc \in {1, 2}, wa \in {0, 3} : path_fn' = WavyEllipsePath(sc, wa)
    /\ stage' = "built"
    /\ UNCHANGED <<scene, morph_tracker, calls, call_t, call_point, inner_calls,
                   eval_counts, first_seen, notPath>>

perfect_circle_path ==
    /\ scene = "perfect_circle_path"
    /\ stage = "args"
    /\ \E radius \in {10, 25} : path_fn' = PerfectCirclePath(radius)
    /\ stage' = "built"
    /\ UNCHANGED <<scene, morph_tracker, calls, call_t, call_point, inner_calls,
                   eval_counts, first_seen, notPath>>

create_morphing_path ==
    /\ scene = "create_morphing_path"
    /\ stage = "args"
    /\ \E ps \in CurvePool, pe \in CurvePool : path_fn' = CreateMorphingPath(ps, pe)
    /\ stage' = "built"
    /\ UNCHANGED <<scene, morph_tracker, calls, call_t, call_point, inner_calls,
                   eval_counts, first_seen, notPath>>

project_path_to_surface ==
    /\ scene = "project_path_to_surface"
    /\ stage = "args"
    /\ \E p2 \in CurvePool, sf \in SurfacePool : path_fn' = ProjectPathToSurface(p2, sf)
    /\ stage' = "built"
    /\ UNCHANGED <<scene, morph_tracker, calls, call_t, call_point, inner_calls,
                   eval_counts, first_seen, notPath>>

\* tracker.set_value(alpha) by the animation that owns the ValueTracker
tracker_set_value ==
    /\ scene \in PathScenes
    /\ stage \in {"built", "called"}
    /\ \E a \in TrackerValues \ {morph_tracker} : morph_tracker' = a
    /\ UNCHANGED <<ctlVars, path_fn, calls, call_t, call_point, inner_calls,
                   eval_counts, first_seen, notPath>>

\* a call f(t) of the path function under test
call_path ==
    /\ scene \in PathScenes
    /\ stage \in {"built", "called"}
    /\ calls < MaxCalls
    /\ \E tt \in 0..MaxT :
           LET point == CallPath(scene, PathUnderTest, tt, morph_tracker)
               log == InnerCalls(scene, tt, morph_tracker)
           IN  /\ call_t' = tt
               /\ call_point' = point
               /\ inner_calls' = log
               /\ eval_counts' = <<eval_counts[1] + CallsOf(log, FirstCurveNames),
                                   eval_counts[2] + CallsOf(log, SecondCurveNames)>>
               /\ first_seen' =
                      IF first_seen[tt].seen THEN first_seen
                      ELSE [first_seen EXCEPT
                                ![tt] = [seen |-> TRUE, point |-> point, tracker |-> morph_tracker]]
    /\ calls' = calls + 1
    /\ stage' = "called"
    /\ UNCHANGED <<scene, path_fn, morph_tracker, notPath>>

NextPath ==
    \/ wavy_ellipse_path
    \/ perfect_circle_path
    \/ lerp_path
    \/ create_morphing_path
    \/ project_path_to_surface
    \/ tracker_set_value
    \/ call_path

SpecPath == InitPath /\ [][NextPath]_vars

(***************************************************************************)
(* Claims about the path functions.                                        *)
(***************************************************************************)
\* C19 (as stated): a path function of any of the five constructors yields,
\* for a parameter t, the point its first call with t yielded, whatever
\* happened in between.
C19_SameParameterSamePoint ==
    (scene \in PathScenes /\ stage = "called") =>
        call_point = first_seen[call_t].point

\* C19 (amended): the path functions of wavy_ellipse_path,
\* perfect_circle_path, lerp_path and project_path_to_surface yield the same
\* point for the same t whatever happened in between; the function of
\* create_morphing_path does so whenever its tracker returns the same value.
C19_SamePointUnlessTrackerMoved ==
    (scene \in PathScenes /\ stage = "called") =>
        /\ scene # "create_morphing_path" => call_point = first_seen[call_t].point
        /\ (scene = "create_morphing_path"
                /\ inner_calls[1] = <<"tracker.get_value", first_seen[call_t].tracker>>) =>
               call_point = first_seen[call_t].point

\* a blended path called twice with the same t, the tracker moved in between
C19_Witness ==
    /\ scene = "lerp_path"
    /\ stage = "called"
    /\ calls = 2
    /\ Cardinality({tt \in 0..MaxT : first_seen[tt].seen}) = 1
    /\ first_seen[call_t].tracker # morph_tracker
    /\ path_a # path_b
    /\ 0 < alpha
    /\ alpha < AlphaDen
    /\ call_point = first_seen[call_t].point

\* C20: constructing the blended path calls neither input curve; each call
\* of the returned function with t calls path_a once and path_b once, at
\* that t; k calls, with the same t or not, make k calls of each curve.
C20_LerpPathLazyNoCache ==
    scene = "lerp_path" =>
        /\ stage \in {"args", "built"} =>
               /\ calls = 0
               /\ inner_calls = <<>>
               /\ eval_counts = <<0, 0>>
        /\ stage = "called" =>
               /\ Len(inner_calls) = 2
               /\ CallsOf(inner_calls, {"path_a"}) = 1
               /\ CallsOf(inner_calls, {"path_b"}) = 1
               /\ \A i \in 1..Len(inner_calls) : inner_calls[i][2] = call_t
               /\ eval_counts = <<calls, calls>>

\* the same t called twice: two evaluations of each curve
C20_Witness ==
    /\ scene = "lerp_path"
    /\ stage = "called"
    /\ calls = 2
    /\ Cardinality({tt \in 0..MaxT : first_seen[tt].seen}) = 1
    /\ eval_counts = <<2, 2>>
    /\ call_t # 0


(***************************************************************************)
(* Random point-cloud generation.  A stream of variates is named by its    *)
(* seed, and a generator state is [seed, pos]: the stream and the number   *)
(* of variates consumed from it.  Each scene is a thread of its own; the   *)
(* statements of a scene are separate steps, so that generations of        *)
(* different scenes can interleave.                                        *)
(***************************************************************************)
MaxGenerations == 2

\* the scaffolding variables outside point-cloud generation
notRng == <<threadVars, resolveVars, scriptVars, barVars>>

\* np.random.seed(s) / np.random.default_rng(seed=s)
Seeded(s) == [seed |-> s, pos |-> 0]

\* the seed each scene passes
SceneSeed(sc) ==
    CASE sc = "review" -> 8
      [] sc = "2d" -> 42
      [] sc = "3d" -> 123

\* variates one cloud consumes: 160 x (uniform, random), 100 x 2, 150 x 3
Variates(sc) ==
    CASE sc = "review" -> 160 * 2
      [] sc = "2d" -> 100 * 2
      [] sc = "3d" -> 150 * 3

\* the generator after n variates were taken from it
Advance(state, n) == [state EXCEPT !.pos = @ + n]

\* the stretch of the stream the next n variates come from
Stretch(state, n) == [seed |-> state.seed, start |-> state.pos, count |-> n]

\* the process-wide RandomState is seeded from OS entropy at import; the
\* negative numbers stand for seeds no scene chooses
EntropySeeds == {-1, -2}

InitRng ==
    /\ scene = "rng"
    /\ stage = "running"
    /\ np_random \in {Seeded(s) : s \in EntropySeeds}
    /\ generator = [seed |-> 0, pos |-> 0]
    /\ rng_pc = [sc \in RngScenes |-> "idle"]
    /\ drawn = [sc \in RngScenes |-> NoSample]
    /\ generations = [sc \in RngScenes |-> 0]
    /\ ThreadIdle
    /\ ResolveIdle
    /\ ScriptIdle
    /\ BarIdle
    /\ ScanIdle
    /\ CovIdle
    /\ EigIdle
    /\ HelperIdle
    /\ GradIdle
    /\ PathIdle

\* scene01_pod_review.py:197  rng = np.random.default_rng(seed=8)
default_rng ==
    /\ scene = "rng"
    /\ rng_pc["review"] \in {"idle", "done"}
    /\ generations["review"] < MaxGenerations
    /\ generator' = Seeded(SceneSeed("review"))
    /\ rng_pc' = [rng_pc EXCEPT !["review"] = "seeded"]
    /\ UNCHANGED <<ctlVars, np_random, drawn, generations, numericVars, notRng>>

\* scene01_pod_review.py:201-211  the sampling loop of _create_point_cloud
create_point_cloud ==
    /\ scene = "rng"
    /\ rng_pc["review"] = "seeded"
    /\ drawn' = [drawn EXCEPT !["review"] = Stretch(generator, Variates("review"))]
    /\ generator' = Advance(generator, Variates("review"))
    /\ rng_pc' = [rng_pc EXCEPT !["review"] = "done"]
    /\ generations' = [generations EXCEPT !["review"] = @ + 1]
    /\ UNCHANGED <<ctlVars, np_random, numericVars, notRng>>

\* pod_educational_2d.py:95  np.random.seed(42)
\* pod_educational_3d.py:74  np.random.seed(123)
np_random_seed ==
    /\ scene = "rng"
    /\ \E sc \in {"2d", "3d"} :
        /\ rng_pc[sc] \in {"idle", "done"}
        /\ generations[sc] < MaxGenerations
        /\ np_random' = Seeded(SceneSeed(sc))
        /\ rng_pc' = [rng_pc EXCEPT ![sc] = "seeded"]
    /\ UNCHANGED <<ctlVars, generator, drawn, generations, numericVars, notRng>>

\* pod_educational_2d.py:97  np.random.multivariate_normal([0, 0], cov_matrix, 100)
\* pod_educational_3d.py:80  np.random.multivariate_normal([0, 0, 0], cov_3d, 150)
np_random_multivariate_normal ==
    /\ scene = "rng"
    /\ \E sc \in {"2d", "3d"} :
        /\ rng_pc[sc] = "seeded"
        /\ drawn' = [drawn EXCEPT ![sc] = Stretch(np_random, Variates(sc))]
        /\ np_random' = Advance(np_random, Variates(sc))
        /\ rng_pc' = [rng_pc EXCEPT ![sc] = "done"]
        /\ generations' = [generations EXCEPT ![sc] = @ + 1]
    /\ UNCHANGED <<ctlVars, generator, numericVars, notRng>>

NextRng ==
    \/ default_rng
    \/ create_point_cloud
    \/ np_random_seed
    \/ np_random_multivariate_normal

SpecRng == InitRng /\ [][NextRng]_vars

\* the stretch a scene's cloud comes from when it is generated alone
Reproducible(sc) == Stretch(Seeded(SceneSeed(sc)), Variates(sc))

\* C21: every scene's point-cloud generation draws from a seeded generator
\* instance of its own and leaves the process-wide random state unchanged, so
\* every generated cloud, repeated or interleaved with other generations, is
\* the same reproducible sample.
C21_CallerOwnedSeededGenerators ==
    [][/\ np_random' = np_random
       /\ \A sc \in RngScenes :
            rng_pc'[sc] = "done" => drawn'[sc] = Reproducible(sc)]_vars

(***************************************************************************)
(* Concurrent calls of the helpers.  Two threads each call one helper on   *)
(* the same argument objects; a statement of the helper that reads an      *)
(* array, a matrix or the tracker is a step of its own, so that the calls  *)
(* interleave between the reads.  The animation that owns the ValueTracker *)
(* moves it at any time.                                                   *)
(***************************************************************************)
ThreadFns == {"normalize_vector", "lerp_matrix", "morphing_path"}

\* arrays in units of 1e-9: one below and one above the default epsilon
ThreadVecs == {<<3, 4, 0>>, <<-30, 40, 0>>}

ThreadMatPairs ==
    { << << <<1, 0>>, <<0, 5>> >>, << <<5, 2>>, <<2, 1>> >> >>,
      << << <<3, 1>>, <<1, 2>> >>, << <<1, -2>>, <<-2, 5>> >> >> }

ThreadClosures ==
    { CreateMorphingPath(WavyEllipsePath(1, 3), PerfectCirclePath(25)),
      CreateMorphingPath(PerfectCirclePath(10), PerfectCirclePath(25)) }

ThreadArgs == {1, 3}

\* (1 - alpha) * mat_a
ScaleLeft(ma, al) ==
    [i \in 1..Len(ma) |-> [j \in 1..Len(ma[i]) |-> (AlphaDen - al) * ma[i][j]]]

\* ... + alpha * mat_b
AddRight(left, mb, al) ==
    [i \in 1..Len(left) |-> [j \in 1..Len(left[i]) |-> left[i][j] + al * mb[i][j]]]

AfterBlendInPlace(ma, blended) == blended

\* mat_a after `return (1 - alpha) * mat_a + alpha * mat_b`: the expression
\* allocates its result, mat_a keeps its entries
AfterBlend(ma, blended) == ma

\* the return statement of normalize_vector, given norm: <<array, norm^2 it
\* was divided by (1 when returned as is), divided>>
NormalizeReturn(v, norm2, eps) ==
    IF eps > 0 /\ norm2 < eps * eps
    THEN <<v, 1, FALSE>>
    ELSE <<v, norm2, TRUE>>

MorphingReturnRereadTracker(locals, tracker_now) ==
    [i \in 1..3 |-> (AlphaDen - locals.alpha) * locals.point_start[i]
                    + tracker_now * locals.point_end[i]]

\* return (1 - alpha) * point_start + alpha * point_end
MorphingReturn(locals, tracker_now) ==
    [i \in 1..3 |-> (AlphaDen - locals.alpha) * locals.point_start[i]
                    + locals.alpha * locals.point_end[i]]

InitThreads ==
    /\ scene = "threads"
    /\ stage = "running"
    /\ shared_v \in ThreadVecs
    /\ \E pair \in ThreadMatPairs :
        /\ shared_mat_a = pair[1]
        /\ shared_mat_b = pair[2]
    /\ shared_tracker \in TrackerValues
    /\ closure \in ThreadClosures
    /\ th_fn \in [Threads -> ThreadFns]
    /\ th_arg \in [Threads -> ThreadArgs]
    /\ th_pc = [th \in Threads |-> "called"]
    /\ th_local = [th \in Threads |-> NoLocals]
    /\ th_reads = [th \in Threads |-> <<>>]
    /\ th_result = [th \in Threads |-> <<>>]
    /\ RngIdle
    /\ ResolveIdle
    /\ ScriptIdle
    /\ BarIdle
    /\ ScanIdle
    /\ CovIdle
    /\ EigIdle
    /\ HelperIdle
    /\ GradIdle
    /\ PathIdle

\* the variables a step of a call leaves alone
threadFrame ==
    <<ctlVars, closure, th_fn, th_arg, numericVars, rngVars, resolveVars, scriptVars,
      barVars>>

\* helpers.py:70  norm = np.linalg.norm(v)
thread_norm ==
    /\ \E th \in Threads :
        /\ th_fn[th] = "normalize_vector"
        /\ th_pc[th] = "called"
        /\ th_local' = [th_local EXCEPT ![th].norm2 = NormSq(shared_v)]
        /\ th_pc' = [th_pc EXCEPT ![th] = "norm"]
    /\ UNCHANGED <<shared_v, shared_mat_a, shared_mat_b, shared_tracker,
                   th_reads, th_result, threadFrame>>

\* helpers.py:71-73  if norm < epsilon: return v / return v / norm
thread_normalize_return ==
    /\ \E th \in Threads :
        /\ th_fn[th] = "normalize_vector"
        /\ th_pc[th] = "norm"
        /\ th_result' = [th_result EXCEPT
                            ![th] = NormalizeReturn(shared_v, th_local[th].norm2, 10)]
        /\ th_pc' = [th_pc EXCEPT ![th] = "returned"]
    /\ UNCHANGED <<shared_v, shared_mat_a, shared_mat_b, shared_tracker,
                   th_local, th_reads, threadFrame>>

\* helpers.py:141  (1 - alpha) * mat_a
thread_scale_left ==
    /\ \E th \in Threads :
        /\ th_fn[th] = "lerp_matrix"
        /\ th_pc[th] = "called"
        /\ th_local' = [th_local EXCEPT ![th].left = ScaleLeft(shared_mat_a, th_arg[th])]
        /\ th_pc' = [th_pc EXCEPT ![th] = "left"]
    /\ UNCHANGED <<shared_v, shared_mat_a, shared_mat_b, shared_tracker,
                   th_reads, th_result, threadFrame>>

\* helpers.py:141  return ... + alpha * mat_b
thread_blend_return ==
    /\ \E th \in Threads :
        /\ th_fn[th] = "lerp_matrix"
        /\ th_pc[th] = "left"
        /\ LET blended == AddRight(th_local[th].left, shared_mat_b, th_arg[th])
           IN  /\ th_result' = [th_result EXCEPT ![th] = blended]
               /\ shared_mat_a' = AfterBlend(shared_mat_a, blended)
        /\ th_pc' = [th_pc EXCEPT ![th] = "returned"]
    /\ UNCHANGED <<shared_v, shared_mat_b, shared_tracker,
                   th_local, th_reads, threadFrame>>

\* geometry.py:68  alpha = tracker.get_value()
thread_get_value ==
    /\ \E th \in Threads :
        /\ th_fn[th] = "morphing_path"
        /\ th_pc[th] = "called"
        /\ th_local' = [th_local EXCEPT ![th].alpha = shared_tracker]
        /\ th_reads' = [th_reads EXCEPT ![th] = Append(@, shared_tracker)]
        /\ th_pc' = [th_pc EXCEPT ![th] = "alpha"]
    /\ UNCHANGED <<shared_v, shared_mat_a, shared_mat_b, shared_tracker,
                   th_result, threadFrame>>

\* geometry.py:69  point_start = path_start(t)
thread_point_start ==
    /\ \E th \in Threads :
        /\ th_fn[th] = "morphing_path"
        /\ th_pc[th] = "alpha"
        /\ th_local' = [th_local EXCEPT
                           ![th].point_start = EvalPath(closure.path_start, th_arg[th])]
        /\ th_pc' = [th_pc EXCEPT ![th] = "point_start"]
    /\ UNCHANGED <<shared_v, shared_mat_a, shared_mat_b, shared_tracker,
                   th_reads, th_result, threadFrame>>

\* geometry.py:70  point_end = path_end(t)
thread_point_end ==
    /\ \E th \in Threads :
        /\ th_fn[th] = "morphing_path"
        /\ th_pc[th] = "point_start"
        /\ th_local' = [th_local EXCEPT
                           ![th].point_end = EvalPath(closure.path_end, th_arg[th])]
        /\ th_pc' = [th_pc EXCEPT ![th] = "point_end"]
    /\ UNCHANGED <<shared_v, shared_mat_a, shared_mat_b, shared_tracker,
                   th_reads, th_result, threadFrame>>

\* geometry.py:71  return (1 - alpha) * point_start + alpha * point_end
thread_morphing_return ==
    /\ \E th \in Threads :
        /\ th_fn[th] = "morphing_path"
        /\ th_pc[th] = "point_end"
        /\ th_result' = [th_result EXCEPT
                            ![th] = MorphingReturn(th_local[th], shared_tracker)]
        /\ th_pc' = [th_pc EXCEPT ![th] = "returned"]
    /\ UNCHANGED <<shared_v, shared_mat_a, shared_mat_b, shared_tracker,
                   th_local, th_reads, threadFrame>>

\* the animation moves the ValueTracker (tracker: 0 -> 1)
animation_set_value ==
    /\ scene = "threads"
    /\ \E value \in TrackerValues \ {shared_tracker} : shared_tracker' = value
    /\ UNCHANGED <<shared_v, shared_mat_a, shared_mat_b, th_pc, th_local,
                   th_reads, th_result, threadFrame>>

NextThreads ==
    \/ thread_norm
    \/ thread_normalize_return
    \/ thread_scale_left
    \/ thread_blend_return
    \/ thread_get_value
    \/ thread_point_start
    \/ thread_point_end
    \/ thread_morphing_return
    \/ animation_set_value

SpecThreads == InitThreads /\ [][NextThreads]_vars

\* the value the call of thread th returns when it runs alone, the tracker
\* holding tracker_value
AloneResult(th, tracker_value) ==
    CASE th_fn[th] = "normalize_vector" ->
             LET r == NormalizeVector(shared_v, 10)
             IN  <<r.num, r.den2, r.divided>>
      [] th_fn[th] = "lerp_matrix" -> LerpMatrix(shared_mat_a, shared_mat_b, th_arg[th])
      [] th_fn[th] = "morphing_path" -> MorphingPath(closure, th_arg[th], tracker_value)

\* every returned call returned what it returns alone
ReturnedAlone ==
    \A th \in Threads :
        th_pc[th] = "returned" => th_result[th] = AloneResult(th, th_local[th].alpha)

\* no step changes an array or matrix argument
ArgumentsUnchanged ==
    /\ shared_v' = shared_v
    /\ shared_mat_a' = shared_mat_a
    /\ shared_mat_b' = shared_mat_b

\* a step of a helper call does not write the tracker
HelperKeepsTracker == (th_pc' # th_pc) => (shared_tracker' = shared_tracker)

\* C22 as stated: under every interleaving, every helper call, the function
\* create_morphing_path returns included, leaves its array and matrix
\* arguments unchanged, touches no shared mutable state (reads no
\* ValueTracker) and returns what it returns when run alone.
C22_AllHelpersTouchNoSharedState ==
    [][/\ ArgumentsUnchanged
       /\ HelperKeepsTracker
       /\ \A th \in Threads : th_reads'[th] = <<>>
       /\ ReturnedAlone']_vars

\* C22 (amended): under every interleaving, every helper call leaves its
\* array and matrix arguments unchanged, writes no shared state and returns
\* what it returns when run alone; the only shared mutable state a helper
\* reads is the ValueTracker, read by morphing_path alone, whose result is the
\* one it returns alone for the tracker value it read.
C22_HelpersReentrantTrackerReadOnly ==
    [][/\ ArgumentsUnchanged
       /\ HelperKeepsTracker
       /\ \A th \in Threads : th_fn[th] # "morphing_path" => th_reads'[th] = <<>>
       /\ ReturnedAlone']_vars

\* two calls of the same helper on the same objects, one returned while the
\* other is between two of its reads
C22_Witness ==
    \E th1 \in Threads, th2 \in Threads :
        /\ th1 # th2
        /\ th_fn[th1] = th_fn[th2]
        /\ th_arg[th1] # th_arg[th2]
        /\ th_pc[th1] = "returned"
        /\ th_pc[th2] \in {"norm", "left", "point_start"}
        /\ th_result[th1] = AloneResult(th1, th_local[th1].alpha)

\* the threads whose call of morphing_path has returned
MorphingReturned == {th \in Threads : th_fn[th] = "morphing_path" /\ th_pc[th] = "returned"}

\* C28: every evaluation of the function create_morphing_path returned reads
\* the tracker exactly once and returns the point lerp_path(path_start,
\* path_end, alpha)(t) for alpha the value it read, so no result mixes two
\* alpha values even when the tracker moves during the evaluation; two
\* evaluations of the same closure at the same t that read different tracker
\* values return different points wherever the two curves differ.
C28_MorphingPathIsLerpPathAtTrackerValue ==
    /\ \A th \in MorphingReturned :
        /\ Len(th_reads[th]) = 1
        /\ th_result[th] =
               InterpolatedPath(
                   LerpPath(closure.path_start, closure.path_end, th_reads[th][1]),
                   th_arg[th])
    /\ \A th1 \in MorphingReturned, th2 \in MorphingReturned :
        (/\ th_arg[th1] = th_arg[th2]
         /\ th_reads[th1] # th_reads[th2]
         /\ EvalPath(closure.path_start, th_arg[th1]) # EvalPath(closure.path_end, th_arg[th1]))
            => th_result[th1] # th_result[th2]

\* two evaluations at the same t returned different points, the tracker
\* having moved between their reads and again before the later one returned
C28_Witness ==
    /\ MorphingReturned = Threads
    /\ th_arg["t1"] = th_arg["t2"]
    /\ th_reads["t1"] # th_reads["t2"]
    /\ shared_tracker \notin {th_reads["t1"][1], th_reads["t2"][1]}
    /\ th_result["t1"] # th_result["t2"]
    /\ th_result["t1"] = MorphingPath(closure, th_arg["t1"], th_reads["t1"][1])

(***************************************************************************)
(* render_pod_split._resolve_manim_command.  The file system and the       *)
(* process environment are inputs: the MANIM_EXECUTABLE variable, the two  *)
(* envs directories with their environments in the order iterdir yields    *)
(* them, the PATH lookup and the module lookup.  An environment imports    *)
(* manim when _find_python_in_env finds an interpreter in it whose         *)
(* `import manim` succeeds.                                                *)
(***************************************************************************)
MaxEnvs == 2

EnvPool == [manim_in_name : BOOLEAN, imports_manim : BOOLEAN]

EnvLists == UNION {[1..n -> EnvPool] : n \in 0..MaxEnvs}

\* an envs directory: absent, or holding a list of environments
EnvsDirPool ==
    {[is_dir |-> FALSE, envs |-> <<>>]} \cup {[is_dir |-> TRUE, envs |-> l] : l \in EnvLists}

\* [p for p in envs_dir.iterdir() if p.is_dir() and ("manim" in p.name.lower()) = named]
RECURSIVE EnvsNamed(_, _, _, _)
EnvsNamed(dirs, d, i, named) ==
    IF i > Len(dirs[d].envs) THEN <<>>
    ELSE (IF dirs[d].envs[i].manim_in_name = named THEN << <<d, i>> >> ELSE <<>>)
         \o EnvsNamed(dirs, d, i + 1, named)

\* the list possible_envs after the loop over envs_dirs
RECURSIVE PossibleEnvs(_, _)
PossibleEnvs(dirs, d) ==
    IF d > Len(dirs) THEN <<>>
    ELSE (IF dirs[d].is_dir
          THEN EnvsNamed(dirs, d, 1, TRUE) \o EnvsNamed(dirs, d, 1, FALSE)
          ELSE <<>>)
         \o PossibleEnvs(dirs, d + 1)

\* _find_python_in_env(env_path) is not None
FindPythonInEnv(dirs, e) == dirs[e[1]].envs[e[2]].imports_manim

InitResolve ==
    /\ scene = "resolve"
    /\ stage = "running"
    /\ manual_exec \in {"unset", "file", "missing"}
    /\ envs_dirs \in [1..2 -> EnvsDirPool]
    /\ manim_on_path \in BOOLEAN
    /\ manim_spec \in BOOLEAN
    /\ resolve_pc = "manual"
    /\ possible_envs = <<>>
    /\ resolved = NotResolved
    /\ RngIdle
    /\ ThreadIdle
    /\ ScriptIdle
    /\ BarIdle
    /\ ScanIdle
    /\ CovIdle
    /\ EigIdle
    /\ HelperIdle
    /\ GradIdle
    /\ PathIdle

resolveFrame ==
    <<ctlVars, manual_exec, envs_dirs, manim_on_path, manim_spec, numericVars,
      rngVars, threadVars, scriptVars, barVars>>

\* render_pod_split.py:25-29  the MANIM_EXECUTABLE override
resolve_manual ==
    /\ resolve_pc = "manual"
    /\ IF manual_exec = "file"
       THEN /\ resolved' = [source |-> "MANIM_EXECUTABLE", env |-> <<>>]
            /\ resolve_pc' = "returned"
       ELSE /\ resolved' = resolved
            /\ resolve_pc' = "envs"
    /\ UNCHANGED <<possible_envs, resolveFrame>>

\* render_pod_split.py:33-71  collect the environments of both directories
resolve_collect_envs ==
    /\ resolve_pc = "envs"
    /\ possible_envs' = PossibleEnvs(envs_dirs, 1)
    /\ resolve_pc' = "probe"
    /\ UNCHANGED <<resolved, resolveFrame>>

\* render_pod_split.py:73-76  one iteration of the loop over possible_envs
resolve_probe_env ==
    /\ resolve_pc = "probe"
    /\ possible_envs # <<>>
    /\ IF FindPythonInEnv(envs_dirs, Head(possible_envs))
       THEN /\ resolved' = [source |-> "env", env |-> Head(possible_envs)]
            /\ resolve_pc' = "returned"
            /\ possible_envs' = possible_envs
       ELSE /\ resolved' = resolved
            /\ resolve_pc' = "probe"
            /\ possible_envs' = Tail(possible_envs)
    /\ UNCHANGED resolveFrame

\* render_pod_split.py:79-81  shutil.which("manim")
resolve_which ==
    /\ resolve_pc = "probe"
    /\ possible_envs = <<>>
    /\ IF manim_on_path
       THEN /\ resolved' = [source |-> "PATH", env |-> <<>>]
            /\ resolve_pc' = "returned"
       ELSE /\ resolved' = resolved
            /\ resolve_pc' = "find_spec"
    /\ UNCHANGED <<possible_envs, resolveFrame>>

\* render_pod_split.py:84-91  importlib.util.find_spec("manim"), else raise
resolve_find_spec ==
    /\ resolve_pc = "find_spec"
    /\ IF manim_spec
       THEN /\ resolved' = [source |-> "sys.executable", env |-> <<>>]
            /\ resolve_pc' = "returned"
       ELSE /\ resolved' = [source |-> "RuntimeError", env |-> <<>>]
            /\ resolve_pc' = "raised"
    /\ UNCHANGED <<possible_envs, resolveFrame>>

NextResolve ==
    \/ resolve_manual
    \/ resolve_collect_envs
    \/ resolve_probe_env
    \/ resolve_which
    \/ resolve_find_spec

SpecResolve == InitResolve /\ [][NextResolve]_vars

\* every environment of the two directories
AllEnvs == {e \in (1..2) \X (1..MaxEnvs) : envs_dirs[e[1]].is_dir /\ e[2] <= Len(envs_dirs[e[1]].envs)}

UsableEnvs == {e \in AllEnvs : FindPythonInEnv(envs_dirs, e)}

ManimNamed(e) == envs_dirs[e[1]].envs[e[2]].manim_in_name

\* the first available source, in the documented order
FirstAvailableSource ==
    IF manual_exec = "file" THEN "MANIM_EXECUTABLE"
    ELSE IF UsableEnvs # {} THEN "env"
    ELSE IF manim_on_path THEN "PATH"
    ELSE IF manim_spec THEN "sys.executable"
    ELSE "RuntimeError"

\* C23: _resolve_manim_command returns the first available of its sources in
\* the order override, installed environment, PATH, current interpreter, and
\* raises RuntimeError when none is available; among the installed
\* environments those whose name contains 'manim' come before the others.
C23_FirstAvailableSourceManimEnvsFirst ==
    resolve_pc \in {"returned", "raised"} =>
        /\ resolved.source = FirstAvailableSource
        /\ (resolve_pc = "raised") = (resolved.source = "RuntimeError")
        /\ resolved.source = "env" =>
            /\ resolved.env \in UsableEnvs
            /\ (\E e \in UsableEnvs : ManimNamed(e)) => ManimNamed(resolved.env)

(***************************************************************************)
(* render_pod_split.py as a script: the argument parsing of the __main__   *)
(* block, then render_animation.  A render is one subprocess.run call; its *)
(* exit code is an input.                                                  *)
(***************************************************************************)
MaxArgs == 3

Parts == {"2d", "3d", "both"}

Qualities == {"low", "medium", "high"}

\* command-line words: the documented ones, an upper-case spelling, the help
\* flags and a word the script does not know
ArgPool == Parts \cup Qualities \cup {"preview", "HIGH", "--help", "-h", "fast"}

\* str.lower()
Lower(word) == IF word = "HIGH" THEN "high" ELSE word

ArgLists == UNION {[1..n -> ArgPool] : n \in 0..MaxArgs}

\* lines 203-210: the first argument
ParseFirst(parsed, word) ==
    LET arg == Lower(word)
    IN  IF arg \in Parts THEN [parsed EXCEPT !.part = arg]
        ELSE IF arg \in Qualities THEN [parsed EXCEPT !.quality = arg]
        ELSE IF arg = "preview" THEN [parsed EXCEPT !.preview = TRUE]
        ELSE parsed

ParseSecondQualityOnly(parsed, word) ==
    LET arg == Lower(word)
    IN  IF arg \in Qualities THEN [parsed EXCEPT !.quality = arg] ELSE parsed

\* lines 212-217: the second argument
ParseSecond(parsed, word) ==
    LET arg == Lower(word)
    IN  IF arg \in Qualities THEN [parsed EXCEPT !.quality = arg]
        ELSE IF arg = "preview" THEN [parsed EXCEPT !.preview = TRUE]
        ELSE parsed

\* lines 219-221: the third argument
ParseThird(parsed, word) ==
    IF Lower(word) = "preview" THEN [parsed EXCEPT !.preview = TRUE] ELSE parsed

\* quality_settings.get(quality, "-qm")
QualityFlag(q) ==
    CASE q = "low" -> "-ql"
      [] q = "medium" -> "-qm"
      [] q = "high" -> "-qh"
      [] OTHER -> "-qm"

\* _build_manim_args without the resolved manim command
BuildManimArgs(scene_file, scene_class, quality_flag, preview_flag) ==
    <<scene_file, scene_class, quality_flag>>
        \o (IF preview_flag # "None" THEN <<preview_flag>> ELSE <<>>)

Render3DAfterFailure(p, ok) == p \in {"3d", "both"}

\* line 164: if part in ["3d", "both"] and success
Render3D(p, ok) == p \in {"3d", "both"} /\ ok

\* exit codes of the manim subprocess
ReturnCodes == {0, 1}

InitScript ==
    /\ scene = "script"
    /\ stage = "running"
    /\ argv \in ArgLists
    /\ script_pc = "first"
    /\ part = "both"
    /\ quality = "medium"
    /\ preview = FALSE
    /\ success = TRUE
    /\ invoked = <<>>
    /\ returned = "none"
    /\ RngIdle
    /\ ThreadIdle
    /\ ResolveIdle
    /\ BarIdle
    /\ ScanIdle
    /\ CovIdle
    /\ EigIdle
    /\ HelperIdle
    /\ GradIdle
    /\ PathIdle

scriptFrame ==
    <<ctlVars, argv, numericVars, rngVars, threadVars, resolveVars, barVars>>

Parsed == [part |-> part, quality |-> quality, preview |-> preview]

\* lines 203-210
parse_first ==
    /\ script_pc = "first"
    /\ LET parsed == IF Len(argv) >= 1 THEN ParseFirst(Parsed, argv[1]) ELSE Parsed
       IN  /\ part' = parsed.part
           /\ quality' = parsed.quality
           /\ preview' = parsed.preview
    /\ script_pc' = "second"
    /\ UNCHANGED <<success, invoked, returned, scriptFrame>>

\* lines 212-217
parse_second ==
    /\ script_pc = "second"
    /\ LET parsed == IF Len(argv) >= 2 THEN ParseSecond(Parsed, argv[2]) ELSE Parsed
       IN  /\ part' = parsed.part
           /\ quality' = parsed.quality
           /\ preview' = parsed.preview
    /\ script_pc' = "third"
    /\ UNCHANGED <<success, invoked, returned, scriptFrame>>

\* lines 219-221
parse_third ==
    /\ script_pc = "third"
    /\ LET parsed == IF Len(argv) >= 3 THEN ParseThird(Parsed, argv[3]) ELSE Parsed
       IN  /\ part' = parsed.part
           /\ quality' = parsed.quality
           /\ preview' = parsed.preview
    /\ script_pc' = "parsed"
    /\ UNCHANGED <<success, invoked, returned, scriptFrame>>

\* lines 224-253: print the usage and exit, or call render_animation
help_or_render ==
    /\ script_pc = "parsed"
    /\ script_pc' = IF \E i \in 1..Len(argv) : argv[i] \in {"--help", "-h"}
                    THEN "exit"
                    ELSE "render_2d"
    /\ success' = TRUE
    /\ UNCHANGED <<part, quality, preview, invoked, returned, scriptFrame>>

\* lines 145-161: the 2D render
render_2d ==
    /\ script_pc = "render_2d"
    /\ IF part \in {"2d", "both"}
       THEN \E returncode \in ReturnCodes :
               /\ invoked' = Append(invoked,
                      [cmd |-> BuildManimArgs("pod_educational_2d.py", "PODEducational2D",
                                   QualityFlag(quality), IF preview THEN "-ps" ELSE "None"),
                       returncode |-> returncode])
               /\ success' = IF returncode # 0 THEN FALSE ELSE success
       ELSE UNCHANGED <<invoked, success>>
    /\ script_pc' = "render_3d"
    /\ UNCHANGED <<part, quality, preview, returned, scriptFrame>>

\* lines 164-180: the 3D render
render_3d ==
    /\ script_pc = "render_3d"
    /\ IF Render3D(part, success)
       THEN \E returncode \in ReturnCodes :
               /\ invoked' = Append(invoked,
                      [cmd |-> BuildManimArgs("pod_educational_3d.py", "PODEducational3D",
                                   QualityFlag(quality), IF preview THEN "-ps" ELSE "None"),
                       returncode |-> returncode])
               /\ success' = IF returncode # 0 THEN FALSE ELSE success
       ELSE UNCHANGED <<invoked, success>>
    /\ script_pc' = "return"
    /\ UNCHANGED <<part, quality, preview, returned, scriptFrame>>

\* line 194: return success
render_return ==
    /\ script_pc = "return"
    /\ returned' = IF success THEN "True" ELSE "False"
    /\ script_pc' = "returned"
    /\ UNCHANGED <<part, quality, preview, success, invoked, scriptFrame>>

\* _build_manim_args fails: _resolve_manim_command raises RuntimeError
render_raise ==
    /\ \/ script_pc = "render_2d" /\ part \in {"2d", "both"}
       \/ script_pc = "render_3d" /\ Render3D(part, success)
    /\ script_pc' = "raised"
    /\ UNCHANGED <<part, quality, preview, success, invoked, returned, scriptFrame>>

NextScript ==
    \/ parse_first
    \/ parse_second
    \/ parse_third
    \/ help_or_render
    \/ render_2d
    \/ render_3d
    \/ render_return
    \/ render_raise

SpecScript == InitScript /\ [][NextScript]_vars

\* the argument list that gives part p, quality q and preview pv in the
\* documented order; "-" stands for an omitted position
Selection(p, q, pv) ==
    (IF p = "-" THEN <<>> ELSE <<p>>)
        \o (IF q = "-" THEN <<>> ELSE <<q>>)
        \o (IF pv THEN <<"preview">> ELSE <<>>)

LowerAll(words) == [i \in 1..Len(words) |-> Lower(words[i])]

\* C26: for every argument list that is an in-order selection of a part, a
\* quality and 'preview' (each position optional), the parsed part, quality
\* and preview are the given values, with the defaults both, medium and False
\* for the omitted ones.
C26_ParserFollowsUsage ==
    script_pc \notin {"idle", "first", "second", "third"} =>
        \A p \in Parts \cup {"-"}, q \in Qualities \cup {"-"}, pv \in BOOLEAN :
            LowerAll(argv) = Selection(p, q, pv) =>
                /\ part = (IF p = "-" THEN "both" ELSE p)
                /\ quality = (IF q = "-" THEN "medium" ELSE q)
                /\ preview = pv

\* parsed: a list that omits the part and gives quality and preview
C26_Witness ==
    /\ script_pc = "parsed"
    /\ argv = <<"low", "preview">>
    /\ part = "both"
    /\ quality = "low"
    /\ preview = TRUE

Is2DRender(call) == call.cmd[1] = "pod_educational_2d.py"

Is3DRender(call) == call.cmd[1] = "pod_educational_3d.py"

\* C27: render_animation renders in a fixed order and stops at the first
\* failure: with part 'both' the 2D render comes first and the 3D render is
\* invoked only after the 2D render exited with code 0; with part '2d' the 3D
\* render is never invoked and with part '3d' the 2D render is never invoked;
\* it returns True if and only if every render it invoked exited with code 0.
C27_RenderOrderAndResult ==
    /\ \A i \in 1..Len(invoked) :
        /\ Is2DRender(invoked[i]) \/ Is3DRender(invoked[i])
        /\ Is2DRender(invoked[i]) => part # "3d" /\ i = 1
        /\ Is3DRender(invoked[i]) =>
            /\ part # "2d"
            /\ part = "both" =>
                /\ i = 2
                /\ Is2DRender(invoked[1])
                /\ invoked[1].returncode = 0
        /\ invoked[i].returncode # 0 => i = Len(invoked)
    /\ script_pc = "returned" =>
        /\ returned = "True" <=> \A i \in 1..Len(invoked) : invoked[i].returncode = 0
        /\ returned = "False" <=> \E i \in 1..Len(invoked) : invoked[i].returncode # 0
        /\ part = "both" => Is2DRender(invoked[1])

\* render_animation('both', ...) returned False after a failed 2D render,
\* without invoking the 3D render
C27_Witness ==
    /\ script_pc = "returned"
    /\ part = "both"
    /\ Len(invoked) = 1
    /\ Is2DRender(invoked[1])
    /\ invoked[1].returncode # 0
    /\ returned = "False"

(***************************************************************************)
(* The energy meter in exact arithmetic.  The tracker runs over the angles *)
(* whose cosine and sine are multiples of 1/5, so that the direction       *)
(* [cos, sin] is exactly a unit vector: direction k is <<5 cos, 5 sin>>,   *)
(* counter-clockwise from angle 0.  Energies carry the scale 25, quotients *)
(* are pairs <<num, den>>.                                                 *)
(***************************************************************************)
UnitDirections ==
    << <<5, 0>>, <<4, 3>>, <<3, 4>>, <<0, 5>>, <<-3, 4>>, <<-4, 3>>,
       <<-5, 0>>, <<-4, -3>>, <<-3, -4>>, <<0, -5>>, <<3, -4>>, <<4, -3>> >>

\* point sets, some of them on a line through the origin
MeterPointPool == {<<0, 0>>, <<1, 1>>, <<2, -1>>, <<2, 0>>}

MeterPointSets == UNION {[1..n -> MeterPointPool] : n \in 0..MaxPoints}

ExactMeterEnergySquareOfSum(samples, k) ==
    LET pr == MatVec(samples, UnitDirections[k])
        s == NpSum([i \in 1..Len(pr) |-> IF pr[i] < 0 THEN 0 - pr[i] ELSE pr[i]])
    IN  s * s

\* energy = np.sum((samples @ direction)**2), scale 25
ExactMeterEnergy(samples, k) == NpSum(Squares(MatVec(samples, UnitDirections[k])))

\* energy / total_energy; the numerator is a multiple of 1e6
ExactQuotient(samples, k) ==
    <<EpsInv * ExactMeterEnergy(samples, k), 25 * TotalEnergy(samples)>>

\* max(0.02, ratio * (meter_outline.width - 0.12)), meter_outline.width = 3.6;
\* a ratio is 1 or has a multiple of 100 as numerator
BarWidth(ratio) ==
    LET w == IF ratio[1] = ratio[2] THEN <<348, 100>>
             ELSE <<(ratio[1] \div 100) * 348, ratio[2]>>
    IN  IF w[1] <= (w[2] - 1) \div 50 THEN <<2, 100>> ELSE w

InitMeter ==
    /\ scene = "meter"
    /\ stage = "sampled"
    /\ points \in MeterPointSets
    /\ tracker = 1
    /\ energy_value = 0
    /\ meter_energy = 0
    /\ meter_value = <<0, 1>>
    /\ fresh = FALSE
    /\ BarIdle
    /\ RngIdle
    /\ ThreadIdle
    /\ ResolveIdle
    /\ ScriptIdle
    /\ CovIdle
    /\ EigIdle
    /\ HelperIdle
    /\ GradIdle
    /\ PathIdle

meterFrame ==
    <<ctlVars, points, energy_value, covVars, eigVars, helperVars, gradVars, pathVars,
      rngVars, threadVars, resolveVars, scriptVars>>

\* angle_tracker.set_value
angle_tracker_set_value ==
    /\ scene = "meter"
    /\ \E k \in 1..Len(UnitDirections) : tracker' = k
    /\ fresh' = FALSE
    /\ UNCHANGED <<meter_energy, meter_value, unclamped, bar_width, meterFrame>>

\* the always_redraw lambda of progress_bar: energy_ratio(), then the width
redraw_progress_bar ==
    /\ scene = "meter"
    /\ meter_energy' = ExactMeterEnergy(points, tracker)
    /\ unclamped' = ExactQuotient(points, tracker)
    /\ LET q == ExactQuotient(points, tracker)
           ratio == NpClip01(q[1], q[2])
       IN  /\ meter_value' = ratio
           /\ bar_width' = BarWidth(ratio)
    /\ fresh' = TRUE
    /\ UNCHANGED <<tracker, meterFrame>>

NextMeter == angle_tracker_set_value \/ redraw_progress_bar

SpecMeter == InitMeter /\ [][NextMeter]_vars

\* C29: for every point set and every exactly unit direction the projected
\* energy does not exceed the total energy sum ||P_i||^2, the unclamped
\* quotient energy / (total + 1e-6) lies in [0, 1), np.clip returns it
\* unchanged, and the progress-bar width is at most the outline's inner width
\* 3.6 - 0.12.
C29_ClampIsNoOpInExactArithmetic ==
    (scene = "meter" /\ fresh) =>
        /\ meter_energy <= 25 * NpSum(RowNormsSquared(points))
        /\ 0 <= unclamped[1]
        /\ unclamped[1] < unclamped[2]
        /\ meter_value = unclamped
        /\ (bar_width[1] \div 348) * 100 <= bar_width[2]

\* the bar was redrawn for points on one line, along that line: the energy
\* equals the total energy and the quotient stays below 1
C29_Witness ==
    /\ scene = "meter"
    /\ fresh
    /\ Len(points) = MaxPoints
    /\ meter_energy > 0
    /\ meter_energy = 25 * NpSum(RowNormsSquared(points))
    /\ unclamped[1] < unclamped[2]
    /\ bar_width # <<2, 100>>


=============================================================================
